---- MODULE Spec2Model ----
(***************************************************************************)
(* A model of eget.wasm's Node.js wrapper (src/eget.js) and of the file    *)
(* convention of the sandboxed module (src/dl_wasip1.go).                  *)
(*                                                                         *)
(* Texts are sequences of tokens.  A URL is a sequence of string tokens in *)
(* which the delimiters ":", "/", "?" and "#" are tokens of their own, so  *)
(* that "https://h/a?x" is <<"https",":","/","/","h","/","a","?","x">>.    *)
(* A file path is a sequence of segments and a segment is a sequence of    *)
(* tokens (the file name "a?x" is the segment <<"a","?","x">>).            *)
(***************************************************************************)
EXTENDS Integers, Sequences, FiniteSets, TLC

VARIABLES
    pc,          \* position of download(): idle, loop, running, ran, fetching, done
    opts,        \* the options of the call: [to, extractAll, all]
    attempts,    \* let attempts (eget.js:885)
    cache,       \* files under this.tmpDir, the directory preopened as /tmp
    sandbox,     \* existing eget.download_<uuid> directories: id -> entry names
    uuids,       \* number of randomUUID() workspace names drawn so far
    cur,         \* downloadTempDir of the current iteration (0: none)
    stderr,      \* errorText: what run() read from the module's error stream
    result,      \* what run() returned to download()
    fetching,    \* the downloadFile call in flight: [url, path], or NoFetch
    dest,        \* files under this.cwd, as paths relative to it
    destDirs,    \* directories under this.cwd when the call started
    outcome,     \* how download() settled: none, true, false, threw
    why,         \* the branch that settled it
    log,         \* history: counters of started/finished runs and fetches
    arg,         \* the argument of a pure function under test
    ret          \* what the function returned for it (<<>>: not yet applied)

\* the variables of the pure functions
io == <<arg, ret>>

vars == <<pc, opts, attempts, cache, sandbox, uuids, cur, stderr, result,
          fetching, dest, destDirs, outcome, why, log, io>>

----------------------------------------------------------------------------
(* Bounds of the model *)

\* number of distinct plain locators https://h/<name> the module stub can name
NumPlain == 10

\* const maxAttempts = 10
maxAttempts == 10

PathNames == <<"a01", "a02", "a03", "a04", "a05", "a06", "a07", "a08",
               "a09", "a10", "a11", "a12">>

----------------------------------------------------------------------------
(* Sequences of tokens *)

Last(s) == s[Len(s)]

Front(s) == SubSeq(s, 1, Len(s) - 1)

\* the least index i >= from with s[i] \in S, or Len(s) + 1 when there is none
FirstIdx(s, S, from) ==
    LET hits == {i \in from..Len(s) : s[i] \in S}
    IN  IF hits = {} THEN Len(s) + 1
        ELSE CHOOSE i \in hits : \A j \in hits : i <= j

\* the least index i >= from with s[i] \notin S, or Len(s) + 1
FirstIdxNot(s, S, from) ==
    LET hits == {i \in from..Len(s) : s[i] \notin S}
    IN  IF hits = {} THEN Len(s) + 1
        ELSE CHOOSE i \in hits : \A j \in hits : i <= j

\* splitting a text on its "/" tokens: "a//b" gives <<a, <<>>, b>>
RECURSIVE SplitFrom(_, _, _)
SplitFrom(s, segs, seg) ==
    IF s = <<>> THEN Append(segs, seg)
    ELSE IF Head(s) = "/" THEN SplitFrom(Tail(s), Append(segs, seg), <<>>)
         ELSE SplitFrom(Tail(s), segs, Append(seg, Head(s)))

SplitSlash(s) == SplitFrom(s, <<>>, <<>>)

\* lexical normalisation of a rooted path: empty and "." segments vanish,
\* ".." removes the segment before it and is dropped at the root
RECURSIVE CleanSegs(_, _)
CleanSegs(segs, acc) ==
    IF segs = <<>> THEN acc
    ELSE LET h == Head(segs)
         IN  IF h = <<>> \/ h = <<".">> THEN CleanSegs(Tail(segs), acc)
             ELSE IF h = <<"..">>
                  THEN CleanSegs(Tail(segs),
                                 IF acc = <<>> THEN acc ELSE Front(acc))
                  ELSE CleanSegs(Tail(segs), Append(acc, h))

----------------------------------------------------------------------------
(* Path codec of the host: urlToPath of eget.js *)

SpecialSchemes == {"http", "https"}

Invalid == << <<"TypeError: Invalid URL">> >>

\* the tokens that are no scheme
Punctuation == {":", "/", "?", "#"}

\* the text has "//" after its scheme
HasSlashes(url) == Len(url) >= 4 /\ url[3] = "/" /\ url[4] = "/"

\* new URL(url): protocol, host and pathname.  After an http(s) scheme any
\* number of slashes precedes the host, which must not be empty; after
\* another scheme the host is what follows "//", if anything, and may be
\* empty.
hostStart(url) ==
    IF url[1] \in SpecialSchemes THEN FirstIdxNot(url, {"/"}, 3)
    ELSE IF HasSlashes(url) THEN 5 ELSE 3

hostEnd(url) ==
    IF url[1] \in SpecialSchemes \/ HasSlashes(url)
    THEN FirstIdx(url, {"/", "?", "#"}, hostStart(url))
    ELSE 3

pathEnd(url) == FirstIdx(url, {"?", "#"}, hostEnd(url))

URLParses(url) ==
    /\ Len(url) >= 2
    /\ url[1] \notin Punctuation
    /\ url[2] = ":"
    /\ url[1] \in SpecialSchemes => hostEnd(url) > hostStart(url)

protocol(url) == <<url[1], ":">>

host(url) == SubSeq(url, hostStart(url), hostEnd(url) - 1)

\* the parser removes dot segments, never climbing above the URL's root;
\* a path that follows a scheme other than http(s) without a slash is opaque
\* and kept as it is
pathname(url) ==
    LET text == SubSeq(url, hostEnd(url), pathEnd(url) - 1)
    IN  IF url[1] \in SpecialSchemes \/ (text # <<>> /\ text[1] = "/")
        THEN CleanSegs(SplitSlash(text), <<>>)
        ELSE SplitSlash(text)

\* the tmpDir of the instance, seen by the module as /tmp
tmpDir == << <<"tmp">> >>

\* join(tmpDir, protocol.slice(0, -1), host, pathname), which normalises
urlToPath(url, dir) ==
    IF ~URLParses(url) THEN Invalid
    ELSE CleanSegs(dir \o <<Front(protocol(url))>> \o <<host(url)>>
                       \o pathname(url), <<>>)

----------------------------------------------------------------------------
(* Path codec of the sandboxed module: urlToPath of dl_wasip1.go *)

\* strings.Replace(url, "://", "/", 1)
ReplaceSchemeSep(url) ==
    LET hits == {i \in 1..(Len(url) - 2) :
                    url[i] = ":" /\ url[i + 1] = "/" /\ url[i + 2] = "/"}
    IN  IF hits = {} THEN url
        ELSE LET i == CHOOSE i \in hits : \A j \in hits : i <= j
             IN  SubSeq(url, 1, i - 1) \o <<"/">> \o SubSeq(url, i + 3, Len(url))

\* path.Join("/tmp", p): Clean("/tmp" + "/" + p)
GoUrlToPath(url) ==
    CleanSegs(SplitSlash(<<"/", "tmp", "/">> \o ReplaceSchemeSep(url)), <<>>)

----------------------------------------------------------------------------
(* Diagnostic text of the module and its parser: parseEgetError of eget.js *)
(* A text is a sequence of tokens [k, v]: "{", "}" and "," stand for       *)
(* themselves, a member "k":"v" of a JSON object is [k |-> k, v |-> v],    *)
(* anything else is unstructured text.                                     *)

Tok(k) == [k |-> k, v |-> <<>>]

Member(k, v) == [k |-> k, v |-> v]

MemberKeys == {"url", "path", "error", "other"}

\* null, and the empty string, which `||` treats alike
null == <<>>

\* errorStr.match(/\{.*\}/s): from the first "{" to the last "}" after it
jsonMatch(errorStr) ==
    LET opens == {i \in 1..Len(errorStr) : errorStr[i].k = "{"}
    IN  IF opens = {} THEN <<>>
        ELSE LET first == CHOOSE i \in opens : \A j \in opens : i <= j
                 closes == {i \in (first + 1)..Len(errorStr) :
                               errorStr[i].k = "}"}
             IN  IF closes = {} THEN <<>>
                 ELSE LET last == CHOOSE i \in closes : \A j \in closes : j <= i
                      IN  SubSeq(errorStr, first, last)

\* JSON.parse(fragment) returns: the fragment is { member , member ... }
JSONParses(fragment) ==
    LET inner == SubSeq(fragment, 2, Len(fragment) - 1)
    IN  /\ Len(fragment) >= 2
        /\ \/ inner = <<>>
           \/ /\ Len(inner) % 2 = 1
              /\ \A i \in 1..Len(inner) :
                    IF i % 2 = 1 THEN inner[i].k \in MemberKeys
                    ELSE inner[i].k = ","

\* errorObj[key] || fallback: the last member of that name wins
Property(fragment, key, fallback) ==
    LET at == {i \in 1..Len(fragment) : fragment[i].k = key}
    IN  IF at = {} THEN fallback
        ELSE LET v == fragment[CHOOSE i \in at : \A j \in at : j <= i].v
             IN  IF v = <<>> THEN fallback ELSE v

\* the characters of a text
RECURSIVE Render(_)
Render(text) ==
    IF text = <<>> THEN <<>>
    ELSE LET t == Head(text)
         IN  (IF t.k \in MemberKeys THEN <<t.k, "=">> \o t.v ELSE <<t.k>>)
                \o Render(Tail(text))

\* what JSON.parse throws
SyntaxError == [raised |-> "SyntaxError"]

\* a faulty variant: JSON.parse is called outside a try
parseEgetErrorUncaught(errorStr) ==
    IF jsonMatch(errorStr) = <<>>
    THEN [path |-> null, url |-> null, error |-> Render(errorStr)]
    ELSE IF ~JSONParses(jsonMatch(errorStr)) THEN SyntaxError
    ELSE [path  |-> Property(jsonMatch(errorStr), "path", null),
          url   |-> Property(jsonMatch(errorStr), "url", null),
          error |-> Property(jsonMatch(errorStr), "error", <<"unknown error">>)]

\* a faulty variant: a text that does not parse is taken for the locator
parseEgetErrorTextAsUrl(errorStr) ==
    IF jsonMatch(errorStr) # <<>> /\ JSONParses(jsonMatch(errorStr))
    THEN [path  |-> Property(jsonMatch(errorStr), "path", null),
          url   |-> Property(jsonMatch(errorStr), "url", null),
          error |-> Property(jsonMatch(errorStr), "error", <<"unknown error">>)]
    ELSE [path |-> null, url |-> Render(errorStr), error |-> Render(errorStr)]

parseEgetError(errorStr) ==
    IF jsonMatch(errorStr) # <<>> /\ JSONParses(jsonMatch(errorStr))
    THEN [path  |-> Property(jsonMatch(errorStr), "path", null),
          url   |-> Property(jsonMatch(errorStr), "url", null),
          error |-> Property(jsonMatch(errorStr), "error", <<"unknown error">>)]
    ELSE [path |-> null, url |-> null, error |-> Render(errorStr)]

----------------------------------------------------------------------------
(* The sandboxed module, a black box that reads /tmp and writes to /       *)

Plain(i) == <<"https", ":", "/", "/", "h", "/", PathNames[i]>>

Paged(q) == <<"https", ":", "/", "/", "h", "/", "releases", "?", q>>

NoScheme == <<"o", "/", "r">>

Locators ==
    {Plain(i) : i \in 1..NumPlain} \cup {Paged("page=1"), Paged("page=2")}
        \cup {NoScheme}

\* the path the module opens for each locator
opened == [url \in Locators |-> GoUrlToPath(url)]

\* Get(url) fails, and the module names url, only when os.Open of its path
\* fails.  The plain locators are interchangeable: the stub names them in
\* the order of their index.
Misses(url, files) ==
    /\ opened[url] \notin files
    /\ \A i \in 1..NumPlain :
          url = Plain(i) => \A j \in 1..(i - 1) : opened[Plain(j)] \in files

Missing(url) ==
    <<Tok("wasm Get: failed"), Tok("{"), Member("url", url), Tok(","),
      Member("error", <<"missing">>), Tok("}")>>

\* what the module may leave on its error stream when it exits nonzero
StubDiagnostics(files) ==
    {Missing(url) : url \in {l \in Locators : Misses(l, files)}}
        \cup {<<>>,
              <<Tok("no release found")>>,
              <<Tok("{"), Member("error", <<"rate limit">>), Tok("}")>>,
              <<Tok("{"), Member("url", Plain(1))>>}

\* the entries the module may write into its root
OutNames == {"result", "notes.txt"}

----------------------------------------------------------------------------
(* The file system *)

\* a faulty variant: rm(dir, {force: true}) of a directory throws, and the catch of
\* download() only logs it
rmWithoutRecursive(sb, id) == sb

\* rm(dir, {recursive: true, force: true}) of a directory under tmpDir
rm(sb, id) == [i \in (DOMAIN sb) \ {id} |-> sb[i]]

\* ensureDir(dir) of a directory under tmpDir
ensureDir(sb, id) ==
    [i \in (DOMAIN sb) \cup {id} |-> IF i \in DOMAIN sb THEN sb[i] ELSE {}]

\* the module leaves `names` in its root
Written(sb, id, names) == [sb EXCEPT ![id] = names]

----------------------------------------------------------------------------
(* Placement of the produced entries: eget.js:917-954 *)

toIsSubdirectory(o, n) == o.to # "" /\ (o.extractAll \/ (o.all /\ n > 1))

\* a faulty variant: with `to`, the entry always goes inside cwd/<to>
finalItemPathOnHostInsideTo(o, n, itemName) ==
    IF o.to # "" THEN <<o.to, itemName>> ELSE <<itemName>>

\* a faulty variant: without `to`, the entry keeps the directory it was
\* produced in
finalItemPathOnHostUnderOut(o, n, itemName) ==
    IF o.to # ""
    THEN IF toIsSubdirectory(o, n) THEN <<o.to, itemName>> ELSE <<o.to>>
    ELSE <<"out", itemName>>

finalItemPathOnHost(o, n, itemName) ==
    IF o.to # ""
    THEN IF toIsSubdirectory(o, n) THEN <<o.to, itemName>> ELSE <<o.to>>
    ELSE <<itemName>>

\* for (const itemName of extractedItems): ensureDir(dirname(final)), which
\* swallows EEXIST, then rename(source, final), which throws when a file is
\* in the way of a parent or a directory is in the way of the file
RECURSIVE moveItems(_, _, _, _)
moveItems(o, n, items, fs) ==
    IF items = <<>> \/ fs.threw THEN fs
    ELSE LET final == finalItemPathOnHost(o, n, Head(items))
             parents == {SubSeq(final, 1, k) : k \in 1..(Len(final) - 1)}
             made == IF parents \cap fs.files = {} THEN fs.dirs \cup parents
                     ELSE fs.dirs
             ok == parents \cap fs.files = {} /\ final \notin made
         IN  moveItems(o, n, Tail(items),
                 [files |-> IF ok THEN fs.files \cup {final} ELSE fs.files,
                  dirs  |-> made,
                  threw |-> ~ok])

\* the orders in which readdir may list a set of names
Listings(names) ==
    {s \in [1..Cardinality(names) -> names] :
        \A i, j \in 1..Cardinality(names) : i # j => s[i] # s[j]}

----------------------------------------------------------------------------
(* download(repo, options) of eget.js, one invocation *)

NoFetch == [url |-> null, path |-> <<>>]

NoResult == [success |-> FALSE, path |-> null, url |-> null, error |-> null]

Options ==
    {[to |-> "", extractAll |-> FALSE, all |-> FALSE],
     [to |-> "tool", extractAll |-> FALSE, all |-> FALSE],
     [to |-> "tool", extractAll |-> TRUE, all |-> FALSE],
     [to |-> "tool", extractAll |-> FALSE, all |-> TRUE]}

\* what the remote or the transport may answer to a fetch that fails
FetchFailures ==
    {"NotFound", "RateLimited", "ServerError", "Timeout", "NetworkError",
     "GenericHttp"}

NoLog ==
    [runsStarted |-> 0, runsFinished |-> 0, fetchesStarted |-> 0,
     fetchesOk |-> 0, fetchesFailed |-> 0, named |-> {}, allNew |-> TRUE,
     fetched |-> {}, produced |-> {}, last |-> "none", dirsBefore |-> {},
     left |-> {}, wrote |-> {}]

Init ==
    /\ pc = "idle"
    /\ opts = [to |-> "", extractAll |-> FALSE, all |-> FALSE]
    /\ attempts = 0
    /\ cache = {}
    /\ sandbox = <<>>
    /\ uuids = 0
    /\ cur = 0
    /\ stderr = <<>>
    /\ result = NoResult
    /\ fetching = NoFetch
    /\ dest = {}
    /\ destDirs \in {{}, {<<"tool">>}}
    /\ outcome = "none"
    /\ why = "none"
    /\ log = [NoLog EXCEPT !.dirsBefore = destDirs]
    /\ arg = <<>>
    /\ ret = <<>>

\* the call: the options are destructured, let attempts = 0
Download(o) ==
    /\ pc = "idle"
    /\ pc' = "loop"
    /\ opts' = o
    /\ attempts' = 0
    /\ UNCHANGED <<io, stderr, cache, sandbox, uuids, cur, result, fetching, dest,
                   destDirs, outcome, why, log>>

\* a faulty variant: the bound is inclusive, while (attempts <= maxAttempts)
LoopConditionInclusive(a) == a <= maxAttempts

\* a faulty variant: the bound is one short, while (attempts < maxAttempts - 1)
LoopConditionShort(a) == a < maxAttempts - 1

\* while (attempts < maxAttempts)
LoopCondition(a) == a < maxAttempts

\* ensureDir(downloadTempDir) of a fresh eget.download_<uuid>, then run()
\* is called
StartAttempt ==
    /\ pc = "loop"
    /\ LoopCondition(attempts)
    /\ uuids' = uuids + 1
    /\ cur' = uuids + 1
    /\ sandbox' = ensureDir(sandbox, uuids + 1)
    /\ pc' = "running"
    /\ log' = [log EXCEPT !.runsStarted = @ + 1]
    /\ UNCHANGED <<io, stderr, opts, attempts, cache, result, fetching, dest, destDirs,
                   outcome, why>>

\* the loop ends: "Max attempts reached", return false
MaxAttemptsReached ==
    /\ pc = "loop"
    /\ ~LoopCondition(attempts)
    /\ pc' = "done"
    /\ outcome' = "false"
    /\ why' = "max_attempts"
    /\ UNCHANGED <<io, stderr, opts, attempts, cache, sandbox, uuids, cur, result,
                   fetching, dest, destDirs, log>>

\* run() returns {success: true}: the module exited 0 and left `names`
RunSucceeds(names) ==
    /\ pc = "running"
    /\ sandbox' = Written(sandbox, cur, names)
    /\ stderr' = <<>>
    /\ result' = [NoResult EXCEPT !.success = TRUE]
    /\ pc' = "ran"
    /\ log' = [log EXCEPT !.runsFinished = @ + 1, !.allNew = FALSE,
                          !.named = {}, !.last = "exit 0", !.wrote = names]
    /\ UNCHANGED <<io, opts, attempts, cache, uuids, cur, fetching, dest,
                   destDirs, outcome, why>>

\* run() returns {success: false, ...parseEgetError(errorText)}: the module
\* exited nonzero with `errorText` on its error stream, leaving `names`
RunFails(errorText, names) ==
    /\ pc = "running"
    /\ errorText \in StubDiagnostics(cache)
    /\ sandbox' = Written(sandbox, cur, names)
    /\ stderr' = errorText
    /\ LET parsedError == parseEgetError(errorText)
           new == log.allNew /\ parsedError.url # null
                      /\ parsedError.url \notin log.named
       IN  /\ result' = [success |-> FALSE,
                         path    |-> parsedError.path,
                         url     |-> parsedError.url,
                         error   |-> parsedError.error]
           /\ log' = [log EXCEPT
                        !.runsFinished = @ + 1,
                        !.allNew = new,
                        !.last = "exit 1",
                        !.left = @ \cup names,
                        !.named = IF new THEN @ \cup {parsedError.url} ELSE {}]
    /\ pc' = "ran"
    /\ UNCHANGED <<io, opts, attempts, cache, uuids, cur, fetching, dest,
                   destDirs, outcome, why>>

\* run() throws (the module cannot be loaded or instantiated); the finally
\* of download() removes the workspace and the exception leaves download()
RunThrows ==
    /\ pc = "running"
    /\ sandbox' = rm(sandbox, cur)
    /\ pc' = "done"
    /\ outcome' = "threw"
    /\ why' = "run_threw"
    /\ log' = [log EXCEPT !.runsFinished = @ + 1, !.allNew = FALSE,
                          !.named = {}, !.last = "threw"]
    /\ UNCHANGED <<io, stderr, opts, attempts, cache, uuids, cur, result, fetching, dest,
                   destDirs>>

\* a faulty variant: the directory of `to` is made before the entries are
\* counted
NothingProducedEnsuresDir ==
    /\ pc = "ran"
    /\ result.success
    /\ sandbox[cur] = {}
    /\ sandbox' = rm(sandbox, cur)
    /\ pc' = "done"
    /\ outcome' = "true"
    /\ why' = "no_output"
    /\ destDirs' = IF opts.to = "" THEN destDirs ELSE destDirs \cup {<<opts.to>>}
    /\ UNCHANGED <<io, stderr, opts, attempts, cache, uuids, cur, result, fetching, dest,
                   log>>

\* result.success with no entry in the workspace: return true
NothingProduced ==
    /\ pc = "ran"
    /\ result.success
    /\ sandbox[cur] = {}
    /\ sandbox' = rm(sandbox, cur)
    /\ pc' = "done"
    /\ outcome' = "true"
    /\ why' = "no_output"
    /\ UNCHANGED <<io, stderr, opts, attempts, cache, uuids, cur, result, fetching, dest,
                   destDirs, log>>

\* result.success: every entry is moved to its place, return true; a
\* rename that throws leaves download() through the finally
Materialize ==
    /\ pc = "ran"
    /\ result.success
    /\ sandbox[cur] # {}
    /\ \E extractedItems \in Listings(sandbox[cur]) :
       LET moved == moveItems(opts, Len(extractedItems), extractedItems,
                              [files |-> dest, dirs |-> destDirs,
                               threw |-> FALSE])
       IN  /\ dest' = moved.files
           /\ destDirs' = moved.dirs
           /\ outcome' = IF moved.threw THEN "threw" ELSE "true"
           /\ why' = IF moved.threw THEN "materialize_threw" ELSE "materialized"
    /\ sandbox' = rm(sandbox, cur)
    /\ pc' = "done"
    /\ log' = [log EXCEPT !.produced = sandbox[cur]]
    /\ UNCHANGED <<io, stderr, opts, attempts, cache, uuids, cur, result, fetching>>

\* a faulty variant: downloadFile is called and not awaited, attempts++, and the loop
\* goes round at once
RequestDownloadNotAwaited ==
    /\ pc = "ran"
    /\ ~result.success
    /\ result.url # null
    /\ LET filePathToDownload == urlToPath(result.url, tmpDir)
       IN  /\ filePathToDownload # Invalid
           /\ fetching' = [url |-> result.url, path |-> filePathToDownload]
    /\ attempts' = attempts + 1
    /\ sandbox' = rm(sandbox, cur)
    /\ pc' = "loop"
    /\ log' = [log EXCEPT !.fetchesStarted = @ + 1]
    /\ UNCHANGED <<io, stderr, opts, cache, uuids, cur, result, dest,
                   destDirs, outcome, why>>

\* !result.success and result.url: urlToPath, then downloadFile is called
RequestDownload ==
    /\ pc = "ran"
    /\ ~result.success
    /\ result.url # null
    /\ LET filePathToDownload == urlToPath(result.url, tmpDir)
       IN  /\ filePathToDownload # Invalid
           /\ fetching' = [url |-> result.url, path |-> filePathToDownload]
    /\ pc' = "fetching"
    /\ log' = [log EXCEPT !.fetchesStarted = @ + 1]
    /\ UNCHANGED <<io, stderr, opts, attempts, cache, sandbox, uuids, cur, result, dest,
                   destDirs, outcome, why>>

\* !result.success and result.url, and new URL(result.url) throws
InvalidLocator ==
    /\ pc = "ran"
    /\ ~result.success
    /\ result.url # null
    /\ urlToPath(result.url, tmpDir) = Invalid
    /\ sandbox' = rm(sandbox, cur)
    /\ pc' = "done"
    /\ outcome' = "threw"
    /\ why' = "invalid_locator"
    /\ UNCHANGED <<io, stderr, opts, attempts, cache, uuids, cur, result, fetching, dest,
                   destDirs, log>>

\* a faulty variant: the finally removes this.tmpDir instead of downloadTempDir
DownloadResolvesRemovesTmpDir ==
    /\ pc = "fetching"
    /\ cache' = {}
    /\ attempts' = attempts + 1
    /\ sandbox' = <<>>
    /\ fetching' = NoFetch
    /\ pc' = "loop"
    /\ log' = [log EXCEPT !.fetchesOk = @ + 1, !.fetched = @ \cup {fetching.url}]
    /\ UNCHANGED <<io, stderr, opts, uuids, cur, result, dest, destDirs,
                   outcome, why>>

\* downloadFile resolves: the file is in the cache, attempts++, and the
\* finally removes the workspace before the loop goes round
DownloadResolves ==
    /\ pc = "fetching"
    /\ cache' = cache \cup {fetching.path}
    /\ attempts' = attempts + 1
    /\ sandbox' = rm(sandbox, cur)
    /\ fetching' = NoFetch
    /\ pc' = "loop"
    /\ log' = [log EXCEPT !.fetchesOk = @ + 1, !.fetched = @ \cup {fetching.url}]
    /\ UNCHANGED <<io, stderr, opts, uuids, cur, result, dest, destDirs, outcome, why>>

\* a faulty variant: the catch logs the rejection and the loop goes round
DownloadRejectsAndRetries(failure) ==
    /\ pc = "fetching"
    /\ cache' = cache \ {fetching.path}
    /\ sandbox' = rm(sandbox, cur)
    /\ fetching' = NoFetch
    /\ pc' = "loop"
    /\ log' = [log EXCEPT !.fetchesFailed = @ + 1]
    /\ UNCHANGED <<io, stderr, opts, attempts, uuids, cur, result, dest,
                   destDirs, outcome, why>>

\* downloadFile rejects: it has removed the file at its path; download()
\* logs, returns false, and the finally removes the workspace
DownloadRejects(failure) ==
    /\ pc = "fetching"
    /\ cache' = cache \ {fetching.path}
    /\ sandbox' = rm(sandbox, cur)
    /\ fetching' = NoFetch
    /\ pc' = "done"
    /\ outcome' = "false"
    /\ why' = failure
    /\ log' = [log EXCEPT !.fetchesFailed = @ + 1]
    /\ UNCHANGED <<io, stderr, opts, attempts, uuids, cur, result, dest, destDirs>>

\* a faulty variant: what the failed run left is moved to cwd before false
\* is returned
NoRecoveryUrlKeepsOutput ==
    /\ pc = "ran"
    /\ ~result.success
    /\ result.url = null
    /\ dest' = dest \cup {<<itemName>> : itemName \in sandbox[cur]}
    /\ sandbox' = rm(sandbox, cur)
    /\ pc' = "done"
    /\ outcome' = "false"
    /\ why' = "no_recovery_url"
    /\ UNCHANGED <<io, stderr, opts, attempts, cache, uuids, cur, result, fetching,
                   destDirs, log>>

\* !result.success and no result.url: return false
NoRecoveryUrl ==
    /\ pc = "ran"
    /\ ~result.success
    /\ result.url = null
    /\ sandbox' = rm(sandbox, cur)
    /\ pc' = "done"
    /\ outcome' = "false"
    /\ why' = "no_recovery_url"
    /\ UNCHANGED <<io, stderr, opts, attempts, cache, uuids, cur, result, fetching, dest,
                   destDirs, log>>

Next ==
    \/ \E o \in Options : Download(o)
    \/ StartAttempt
    \/ MaxAttemptsReached
    \/ \E names \in SUBSET OutNames : RunSucceeds(names)
    \/ \E errorText \in StubDiagnostics(cache), names \in {{}, {"result"}} :
          RunFails(errorText, names)
    \/ RunThrows
    \/ NothingProduced
    \/ Materialize
    \/ RequestDownload
    \/ InvalidLocator
    \/ DownloadResolves
    \/ \E failure \in FetchFailures : DownloadRejects(failure)
    \/ NoRecoveryUrl

Spec == Init /\ [][Next]_vars

----------------------------------------------------------------------------
(* Properties of one invocation of download() *)

RunsInFlight == log.runsStarted - log.runsFinished

FetchesInFlight == log.fetchesStarted - log.fetchesOk - log.fetchesFailed

\* the text holds no "{", so no JSON object
NoJson(text) == \A i \in 1..Len(text) : text[i].k # "{"

\* a bound on the steps an invocation at position p with a attempts can take
StepsLeft(p, a) ==
    CASE p = "done" -> 0
      [] p = "fetching" -> 4 * (maxAttempts - a) + 1
      [] p = "ran" -> 4 * (maxAttempts - a) + 2
      [] p = "running" -> 4 * (maxAttempts - a) + 3
      [] p = "loop" -> 4 * (maxAttempts - a) + 4
      [] OTHER -> 4 * maxAttempts + 5

\* C1 (retry bound): no invocation starts more than maxAttempts runs; an
\* invocation whose every run exits nonzero naming a locator not named before,
\* and whose every such locator is fetched, settles with false after exactly
\* maxAttempts runs, "Max attempts reached"; and every step of an invocation
\* brings it nearer to settling, so that it takes finitely many.
C1_RetryBound ==
    /\ [](log.runsStarted <= maxAttempts)
    /\ []((pc = "done" /\ log.allNew /\ log.fetchesOk = log.runsFinished)
            => /\ outcome = "false"
               /\ why = "max_attempts"
               /\ log.runsStarted = maxAttempts
               /\ log.runsFinished = maxAttempts)
    /\ [][StepsLeft(pc', attempts') < StepsLeft(pc, attempts)]_vars

C1_Witness ==
    /\ pc = "done"
    /\ log.allNew
    /\ log.fetchesOk = log.runsFinished
    /\ log.runsStarted = maxAttempts

\* C2 (terminal on unrecoverable): a run that exits nonzero with a text
\* holding no JSON gives a null locator; after a run with a null locator no
\* run and no fetch is started, and download() returns false having started
\* one fetch less than runs (one run and no fetch when it is the first run).
C2_TerminalOnUnrecoverable ==
    /\ (pc = "ran" /\ log.last = "exit 1" /\ NoJson(stderr))
          => result.url = null
    /\ (log.last = "exit 1" /\ result.url = null) => pc \in {"ran", "done"}
    /\ (pc = "done" /\ log.last = "exit 1"
           /\ (NoJson(stderr) \/ result.url = null))
          => /\ outcome = "false"
             /\ why = "no_recovery_url"
             /\ log.fetchesStarted = log.runsStarted - 1
             /\ log.fetchesOk = log.fetchesStarted

C2_Witness ==
    /\ pc = "done"
    /\ log.last = "exit 1"
    /\ why = "no_recovery_url"
    /\ NoJson(stderr)
    /\ log.runsStarted = 1
    /\ log.fetchesStarted = 0

\* C3 (fetch failure is terminal): once a downloadFile call has failed, of
\* whatever kind, download() has settled without success, and no run and no
\* fetch was started after the failed one.
C3_FetchFailureTerminal ==
    log.fetchesFailed > 0
       => /\ pc = "done"
          /\ outcome = "false"
          /\ why \in FetchFailures
          /\ log.fetchesFailed = 1
          /\ log.fetchesStarted = log.fetchesOk + 1
          /\ log.runsStarted = log.fetchesStarted
          /\ log.runsFinished = log.runsStarted

C3_Witness ==
    /\ log.fetchesFailed = 1
    /\ why = "RateLimited"
    /\ log.fetchesOk >= 1
    /\ pc = "done"

\* C4 (end-to-end recovery): an invocation whose last run exits 0 has made
\* k < maxAttempts fetches and k + 1 runs, and without `to` every entry the
\* run produced is at cwd/<entry>; an invocation with fewer than maxAttempts
\* fetched locators fails only when a fetch failed, the module named no
\* locator or one that does not parse, or run() or a rename threw.
C4_EndToEndRecovery ==
    /\ (pc = "done" /\ result.success)
          => /\ log.fetchesOk < maxAttempts
             /\ attempts = log.fetchesOk
             /\ log.fetchesStarted = log.fetchesOk
             /\ log.runsStarted = log.fetchesOk + 1
             /\ log.runsFinished = log.runsStarted
    /\ (pc = "done" /\ result.success /\ opts.to = "")
          => /\ outcome = "true"
             /\ \A itemName \in log.produced : <<itemName>> \in dest
    /\ (pc = "done" /\ outcome # "true" /\ log.fetchesOk < maxAttempts)
          => \/ log.fetchesFailed = 1
             \/ why \in {"no_recovery_url", "invalid_locator", "run_threw",
                         "materialize_threw"}

C4_Witness ==
    /\ pc = "done"
    /\ outcome = "true"
    /\ log.fetchesOk = maxAttempts - 1
    /\ log.runsStarted = maxAttempts
    /\ "result" \in log.produced
    /\ <<"result">> \in dest

\* C5 as claimed: a fetch is started after failing run n only when
\* n + 1 < maxAttempts, so an invocation starts at most maxAttempts - 1
\* fetches.
C5_AsClaimed ==
    /\ pc = "fetching" => log.runsFinished < maxAttempts
    /\ log.fetchesStarted <= maxAttempts - 1

\* C5 (as amended): a fetch is started after every failing run that names a
\* locator that parses, the maxAttempts-th run included, so an invocation
\* starts at most maxAttempts fetches; "Max attempts reached" is returned
\* only after maxAttempts runs and maxAttempts fetches that succeeded.
C5_FetchBound ==
    /\ log.fetchesStarted <= maxAttempts
    /\ pc = "fetching" => log.fetchesStarted = log.runsFinished
    /\ (pc = "done" /\ why = "max_attempts")
          => /\ attempts = maxAttempts
             /\ log.fetchesOk = maxAttempts
             /\ log.runsStarted = maxAttempts

C5_Witness ==
    /\ pc = "fetching"
    /\ log.runsFinished = maxAttempts
    /\ log.fetchesStarted = maxAttempts

\* C6 (runs and fetches alternate): at most one run and at most one fetch is
\* in flight, never both; a fetch in flight was started after the latest run
\* returned failure with a locator, and fetches that locator into its cache
\* path; a run in flight was started after every earlier fetch succeeded.
C6_RunsAndFetchesAlternate ==
    /\ RunsInFlight \in {0, 1}
    /\ FetchesInFlight \in {0, 1}
    /\ RunsInFlight + FetchesInFlight <= 1
    /\ FetchesInFlight = 1
          => /\ log.fetchesStarted = log.runsFinished
             /\ ~result.success
             /\ result.url # null
             /\ fetching.url = result.url
             /\ fetching.path = urlToPath(result.url, tmpDir)
             /\ fetching.path # Invalid
    /\ RunsInFlight = 1
          => /\ log.runsStarted = log.fetchesOk + 1
             /\ log.fetchesFailed = 0

C6_Witness ==
    /\ RunsInFlight = 1
    /\ log.fetchesOk >= 2
    /\ FetchesInFlight = 0

C8_CachePersists ==
    pc = "running" => \A url \in log.fetched : urlToPath(url, tmpDir) \in cache

C8_Witness ==
    /\ pc = "running"
    /\ Cardinality(log.fetched) >= 2
    /\ uuids >= 3

----------------------------------------------------------------------------
(* The two path codecs applied to the locators the module can name *)

\* the longest path of a locator, in segments
MaxSegs == 2

Schemes == {"http", "https"}

Hosts == {"h", "g"}

SegNames == {"a", "b"}

Queries == {"", "page=1", "page=2"}

SegSeqs == UNION {[1..n -> SegNames] : n \in 1..MaxSegs}

RECURSIVE PathText(_)
PathText(segs) ==
    IF segs = <<>> THEN <<>>
    ELSE <<"/", Head(segs)>> \o PathText(Tail(segs))

\* the text scheme://authority/path[?query]
UrlText(scheme, authority, segs, query) ==
    <<scheme, ":", "/", "/", authority>> \o PathText(segs)
        \o (IF query = "" THEN <<>> ELSE <<"?", query>>)

WellFormed ==
    {UrlText(s, a, p, q) : s \in Schemes, a \in Hosts, p \in SegSeqs,
                           q \in Queries}

\* texts without a scheme, and without an authority
Malformed ==
    {<<"h", "/", "a">>, <<"o", "/", "r">>, <<"https", ":", "/", "/">>,
     <<"https", ":">>, <<"/", "a">>, <<"/", "/", "h", "/", "a">>,
     <<"file", ":", "/", "/", "/", "a">>, <<"foo", ":", "bar">>,
     <<"foo", ":", "/", "/">>}

UrlTexts == WellFormed \cup Malformed

\* the path the host writes for each text
written == [url \in UrlTexts |-> urlToPath(url, tmpDir)]

CodecInit ==
    /\ pc = "codec"
    /\ arg \in UrlTexts
    /\ ret = <<>>
    /\ opts = [to |-> "", extractAll |-> FALSE, all |-> FALSE]
    /\ attempts = 0
    /\ cache = {}
    /\ sandbox = <<>>
    /\ uuids = 0
    /\ cur = 0
    /\ stderr = <<>>
    /\ result = NoResult
    /\ fetching = NoFetch
    /\ dest = {}
    /\ destDirs = {}
    /\ outcome = "none"
    /\ why = "none"
    /\ log = NoLog

\* the host computes the path it writes, the module the path it opens
Encode ==
    /\ pc = "codec"
    /\ ret = <<>>
    /\ ret' = [host |-> urlToPath(arg, tmpDir), module |-> GoUrlToPath(arg)]
    /\ UNCHANGED <<arg, pc, opts, attempts, cache, sandbox, uuids, cur,
                   stderr, result, fetching, dest, destDirs, outcome, why,
                   log>>

CodecNext == Encode

SpecCodec == CodecInit /\ [][CodecNext]_vars

\* C9 (host and module agree on the path codec): for every locator the host
\* can parse, the path the host writes under tmpDir is the path the module
\* opens under /tmp, so that the module's next read of it does not miss.
C9_CodecsAgree ==
    (ret # <<>> /\ ret.host # Invalid) => ret.host = ret.module

\* C10 (the path codec is deterministic and collision-free): the host
\* computes the same path for a locator on every call, and no other locator
\* is written to that path.
C10_CollisionFree ==
    (ret # <<>> /\ ret.host # Invalid)
        => /\ ret.host = written[arg]
           /\ \A url \in UrlTexts : url # arg => written[url] # ret.host

----------------------------------------------------------------------------
(* parseEgetError applied to the texts a module may leave on its stderr *)

\* the longest unstructured text before and after the object, in tokens
MaxJunk == 1

\* the most members of an object
MaxMembers == 2

JunkTokens == {Tok("log"), Tok("{"), Tok("}")}

Junk == UNION {[1..n -> JunkTokens] : n \in 0..MaxJunk}

Members ==
    {Member("url", Plain(1)), Member("path", <<"p">>),
     Member("error", <<"e">>), Member("other", <<"o">>)}

MemberSeqs == UNION {[1..n -> Members] : n \in 0..MaxMembers}

RECURSIVE Commas(_)
Commas(ms) ==
    IF Len(ms) <= 1 THEN ms
    ELSE <<Head(ms), Tok(",")>> \o Commas(Tail(ms))

Shapes == {"object", "unclosed", "trailing comma", "none"}

\* a JSON object of the members ms, well-formed or not
Body(ms, shape) ==
    CASE shape = "object" -> <<Tok("{")>> \o Commas(ms) \o <<Tok("}")>>
      [] shape = "unclosed" -> <<Tok("{")>> \o Commas(ms)
      [] shape = "trailing comma" ->
            <<Tok("{")>> \o Commas(ms) \o <<Tok(","), Tok("}")>>
      [] OTHER -> <<>>

Diagnostics ==
    [prefix : Junk, members : MemberSeqs, shape : Shapes, suffix : Junk]

\* errorText as run() reads it from the stderr file
ErrorText(d) == d.prefix \o Body(d.members, d.shape) \o d.suffix

ParserInit ==
    /\ pc = "parser"
    /\ arg \in Diagnostics
    /\ ret = <<>>
    /\ opts = [to |-> "", extractAll |-> FALSE, all |-> FALSE]
    /\ attempts = 0
    /\ cache = {}
    /\ sandbox = <<>>
    /\ uuids = 0
    /\ cur = 0
    /\ stderr = <<>>
    /\ result = NoResult
    /\ fetching = NoFetch
    /\ dest = {}
    /\ destDirs = {}
    /\ outcome = "none"
    /\ why = "none"
    /\ log = NoLog

\* const parsedError = parseEgetError(errorText)
Parse ==
    /\ pc = "parser"
    /\ ret = <<>>
    /\ stderr' = ErrorText(arg)
    /\ ret' = parseEgetError(ErrorText(arg))
    /\ UNCHANGED <<arg, pc, opts, attempts, cache, sandbox, uuids, cur,
                   result, fetching, dest, destDirs, outcome, why, log>>

ParserNext == Parse

SpecParser == ParserInit /\ [][ParserNext]_vars

\* the value of the last member named key among ms, or fallback
Field(ms, key, fallback) ==
    LET at == {i \in 1..Len(ms) : ms[i].k = key}
    IN  IF at = {} THEN fallback
        ELSE ms[CHOOSE i \in at : \A j \in at : j <= i].v

\* C12 (the parser is total): parseEgetError returns a record for every
\* text, and for a text with no {...} fragment, or whose fragment JSON.parse
\* rejects, that record has no locator, no path, and the text as message.
C12_ParserTotal ==
    ret # <<>>
       => /\ ret # SyntaxError
          /\ DOMAIN ret = {"path", "url", "error"}
          /\ (jsonMatch(stderr) = <<>> \/ ~JSONParses(jsonMatch(stderr)))
                => ret = [path |-> null, url |-> null, error |-> Render(stderr)]

C12_Witness ==
    /\ ret # <<>>
    /\ arg.shape = "trailing comma"
    /\ arg.prefix # <<>>
    /\ arg.suffix # <<>>
    /\ Len(arg.members) = 2
    /\ ret = [path |-> null, url |-> null, error |-> Render(stderr)]

\* C13 (an embedded object is decoded): a well-formed object with whatever
\* text before and after it gives its url as locator, its path as path and
\* its error as message, null, null and "unknown error" when absent.
C13_EmbeddedObjectDecoded ==
    (ret # <<>> /\ arg.shape = "object")
       => ret = [path  |-> Field(arg.members, "path", null),
                 url   |-> Field(arg.members, "url", null),
                 error |-> Field(arg.members, "error", <<"unknown error">>)]

----------------------------------------------------------------------------
(* downloadFile(url, filePath, onProgress, timeoutMs), one call            *)
(* `ret` holds its locals, `cache` the files on disk, `arg` what the       *)
(* remote answers.                                                         *)

\* the largest body, in bytes
MaxBytes == 3

\* a header that is absent reads as null, which is falsy like ""
HeaderValues == {"", "soon", "0", "30"}

IsNumber(text) == text \in {"0", "30"}

\* parseInt(text, 10) of a text that is a number
ParseInt(text) == IF text = "30" THEN 30 ELSE 0

NoDate == [from |-> "null", seconds |-> 0]

\* HttpErrorRateLimit.calculateRetryAfter(headers)
calculateRetryAfter(headers) ==
    IF headers.retryAfter # "" /\ IsNumber(headers.retryAfter)
    THEN [from |-> "Date.now()", seconds |-> ParseInt(headers.retryAfter)]
    ELSE IF headers.rateLimitReset # "" /\ IsNumber(headers.rateLimitReset)
         THEN [from |-> "epoch", seconds |-> ParseInt(headers.rateLimitReset)]
         ELSE NoDate

Thrown(name, message, statusCode, url, retryAfter) ==
    [name |-> name, message |-> message, statusCode |-> statusCode,
     url |-> url, retryAfter |-> retryAfter]

NoError == Thrown("none", <<>>, 0, null, NoDate)

\* new Error(message)
Error(message) == Thrown("Error", message, 0, null, NoDate)

\* a faulty variant: 429 is not among the cases of the switch
HttpErrorForWithout429(response, url) ==
    CASE response.status = 404 ->
            Thrown("HttpErrorNotFound", <<"HTTP", "404">>, 404, url, NoDate)
      [] response.status = 403 ->
            Thrown("HttpErrorRateLimit", <<"HTTP", "rate">>, response.status,
                   url, calculateRetryAfter(response))
      [] response.status \in {500, 503} ->
            Thrown("HttpErrorServer", <<"HTTP", "server">>, response.status,
                   url, NoDate)
      [] OTHER ->
            Thrown("HttpError", <<"HTTP", "other">>, response.status, url,
                   NoDate)

\* switch (response.status) of a response that is not ok
HttpErrorFor(response, url) ==
    CASE response.status = 404 ->
            Thrown("HttpErrorNotFound", <<"HTTP", "404">>, 404, url, NoDate)
      [] response.status \in {403, 429} ->
            Thrown("HttpErrorRateLimit", <<"HTTP", "rate">>, response.status,
                   url, calculateRetryAfter(response))
      [] response.status \in {500, 503} ->
            Thrown("HttpErrorServer", <<"HTTP", "server">>, response.status,
                   url, NoDate)
      [] OTHER ->
            Thrown("HttpError", <<"HTTP", "other">>, response.status, url,
                   NoDate)

\* error.message.includes(word)
Includes(message, word) == \E i \in 1..Len(message) : message[i] = word

\* a faulty variant: the catch rethrows whatever it caught
RethrownAsCaught(error) == error

\* the end of the catch of downloadFile: what the caller sees
Rethrown(error) ==
    IF error.name = "AbortError" THEN Error(<<"Download timed out">>)
    ELSE IF error.name = "TypeError" /\ Includes(error.message, "fetch")
         THEN Error(<<"Network error downloading">>)
         ELSE IF Includes(error.message, "HTTP") THEN error
              ELSE Error(<<"Failed to download">>)

\* a faulty variant: the partial file is left where it is
rmFileSkipped(files, filePath) == files

\* rm(filePath, {force: true}), which does not mind a missing file
rmFile(files, filePath) == files \ {filePath}

\* a faulty variant: the last call reports totalBytes as it is
finalTotalAsAdvertised(totalBytes, receivedBytes) == totalBytes

\* totalBytes === -1 ? receivedBytes : totalBytes
finalTotal(totalBytes, receivedBytes) ==
    IF totalBytes = -1 THEN receivedBytes ELSE totalBytes

\* onProgressCallback(url, currentBytes, totalBytes)
Progress(currentBytes, totalBytes) ==
    [current |-> currentBytes, total |-> totalBytes]

FetchUrl == Plain(1)

FilePath == urlToPath(FetchUrl, tmpDir)

\* response.ok
OkStatuses == {200}

NotOkStatuses == {304, 400, 403, 404, 429, 500, 502, 503}

\* what the remote may answer.  A body with a Content-Encoding is decoded
\* by fetch, and its Content-Length counts the encoded bytes.
Responses ==
    [status : OkStatuses, hasBody : BOOLEAN,
     contentLength : {[present |-> FALSE, value |-> 0]}
                        \cup [present : {TRUE}, value : 0..MaxBytes],
     encoded : BOOLEAN, retryAfter : {""}, rateLimitReset : {""}]
    \cup
    [status : NotOkStatuses, hasBody : {TRUE},
     contentLength : {[present |-> FALSE, value |-> 0]},
     encoded : {FALSE}, retryAfter : HeaderValues,
     rateLimitReset : HeaderValues]

\* what a call of the caller's onProgress may do: return, or throw an
\* Error, a string, or an object that has no conversion to a string, such
\* as Object.create(null)
Throwables == {"Error", "string", "bare object"}

CallbackOutcomes == {"returns"} \cup Throwables

\* onProgressCallback(url, currentBytes, totalBytes): what escapes the
\* wrapper when the call of onProgress did `thrown`.  The catch logs
\* e.message of an Error and String(e) of anything else, and String(e)
\* throws a TypeError for a value it cannot convert.
onProgressCallback(thrown) ==
    IF thrown = "bare object"
    THEN Thrown("TypeError",
                <<"Cannot convert object to primitive value">>,
                0, null, NoDate)
    ELSE NoError

Locals(totalBytes, receivedBytes, calls, timer, error) ==
    [totalBytes |-> totalBytes, receivedBytes |-> receivedBytes,
     calls |-> calls, timer |-> timer, error |-> error,
     written |-> 0, writtenAt |-> <<>>, thrown |-> <<>>]

\* the locals after a progress call: writtenAt keeps how many bytes were in
\* the file then, thrown what the caller's onProgress did
Called(locals, progress, thrown) ==
    [locals EXCEPT !.calls = Append(@, progress),
                   !.writtenAt = Append(@, locals.written),
                   !.thrown = Append(@, thrown)]

\* up to `await fetch(url, ...)`: the timer is armed; a remnant of an
\* earlier call may be at filePath
FetchInit ==
    /\ pc = "connecting"
    /\ arg \in Responses
    /\ ret = Locals(-1, 0, <<>>, "armed", NoError)
    /\ cache \in {{}, {FilePath}}
    /\ fetching = [url |-> FetchUrl, path |-> FilePath]
    /\ opts = [to |-> "", extractAll |-> FALSE, all |-> FALSE]
    /\ attempts = 0
    /\ sandbox = <<>>
    /\ uuids = 0
    /\ cur = 0
    /\ stderr = <<>>
    /\ result = NoResult
    /\ dest = {}
    /\ destDirs = {}
    /\ outcome = "none"
    /\ why = "none"
    /\ log = NoLog

\* the catch and the finally of downloadFile, after `error` was thrown
Rejected(locals, error) ==
    /\ pc' = "rejected"
    /\ cache' = rmFile(cache, FilePath)
    /\ ret' = [locals EXCEPT !.error = Rethrown(error),
                             !.timer = IF @ = "armed" THEN "cleared" ELSE @]
    /\ UNCHANGED <<arg, opts, attempts, sandbox, uuids, cur, stderr,
                   result, fetching, dest, destDirs, outcome, why, log>>

\* fetch resolves with a response that is ok: the first progress call,
\* ensureDir(dirname(filePath)), createWriteStream(filePath)
ResponseOk ==
    /\ pc = "connecting"
    /\ arg.status \in OkStatuses
    /\ arg.hasBody
    /\ \E thrown \in CallbackOutcomes :
          LET totalBytes == IF arg.contentLength.present
                            THEN arg.contentLength.value ELSE -1
              called == Called([ret EXCEPT !.totalBytes = totalBytes],
                               Progress(0, totalBytes), thrown)
              escaped == onProgressCallback(thrown)
          IN  IF escaped # NoError
              THEN Rejected(called, escaped)
              ELSE /\ ret' = called
                   /\ cache' = cache \cup {FilePath}
                   /\ pc' = "streaming"
    /\ UNCHANGED <<arg, opts, attempts, sandbox, uuids, cur, stderr,
                   result, fetching, dest, destDirs, outcome, why, log>>

\* fetch resolves with a response that is not ok
ResponseNotOk ==
    /\ pc = "connecting"
    /\ arg.status \notin OkStatuses
    /\ Rejected(ret, HttpErrorFor(arg, fetching.url))

\* fetch resolves with a response without a body
ResponseBodyNull ==
    /\ pc = "connecting"
    /\ arg.status \in OkStatuses
    /\ ~arg.hasBody
    /\ Rejected(ret, Error(<<"Response body is null.">>))

\* fetch rejects: the transport failed
FetchFails ==
    /\ pc = "connecting"
    /\ Rejected(ret, Thrown("TypeError", <<"fetch", "failed">>, 0, null,
                            NoDate))

\* the body still has bytes to give
MoreBytes(n) ==
    /\ ret.receivedBytes + n <= MaxBytes
    /\ (arg.contentLength.present /\ ~arg.encoded)
          => ret.receivedBytes + n <= arg.contentLength.value

\* a faulty variant: the transform goes on reporting after the pipeline
\* was destroyed
ChunkWhenDestroyed(n) ==
    /\ pc \in {"streaming", "rejected"}
    /\ MoreBytes(n)
    /\ \E thrown \in CallbackOutcomes :
          ret' = [Called([ret EXCEPT !.receivedBytes = @ + n],
                         Progress(ret.receivedBytes + n, ret.totalBytes),
                         thrown)
                    EXCEPT !.written = @ + n]
    /\ UNCHANGED <<arg, pc, opts, attempts, cache, sandbox, uuids, cur,
                   stderr, result, fetching, dest, destDirs, outcome, why,
                   log>>

\* progressTransform.transform(chunk): a chunk of n bytes goes by, is
\* reported, and callback(null, chunk) hands it to the file stream; what
\* escapes the progress call escapes transform and the pipeline rejects
\* with it
Chunk(n) ==
    /\ pc = "streaming"
    /\ MoreBytes(n)
    /\ \E thrown \in CallbackOutcomes :
          LET called == Called([ret EXCEPT !.receivedBytes = @ + n],
                               Progress(ret.receivedBytes + n,
                                        ret.totalBytes),
                               thrown)
              escaped == onProgressCallback(thrown)
          IN  IF escaped # NoError
              THEN Rejected(called, escaped)
              ELSE /\ ret' = [called EXCEPT !.written = @ + n]
                   /\ UNCHANGED <<pc, cache>>
    /\ UNCHANGED <<arg, opts, attempts, sandbox, uuids, cur, stderr,
                   result, fetching, dest, destDirs, outcome, why, log>>

\* pipeline resolves: the last progress call, and the finally
PipelineEnds ==
    /\ pc = "streaming"
    /\ (arg.contentLength.present /\ ~arg.encoded)
          => ret.receivedBytes = arg.contentLength.value
    /\ \E thrown \in CallbackOutcomes :
          LET called == Called(ret,
                               Progress(ret.receivedBytes,
                                        finalTotal(ret.totalBytes,
                                                   ret.receivedBytes)),
                               thrown)
              escaped == onProgressCallback(thrown)
          IN  IF escaped # NoError
              THEN Rejected(called, escaped)
              ELSE /\ ret' = [called EXCEPT !.timer = "cleared"]
                   /\ pc' = "resolved"
                   /\ UNCHANGED cache
    /\ UNCHANGED <<arg, opts, attempts, sandbox, uuids, cur, stderr,
                   result, fetching, dest, destDirs, outcome, why, log>>

\* pipeline rejects: the connection or the write stream failed
PipelineFails ==
    /\ pc = "streaming"
    /\ Rejected(ret, Thrown("Error", <<"ECONNRESET">>, 0, null, NoDate))

\* the timer fires, controller.abort(): fetch or pipeline rejects
TimerFires ==
    /\ pc \in {"connecting", "streaming"}
    /\ ret.timer = "armed"
    /\ pc' = "rejected"
    /\ cache' = rmFile(cache, FilePath)
    /\ ret' = [ret EXCEPT !.error = Rethrown(Thrown("AbortError",
                                         <<"This operation was aborted">>,
                                         0, null, NoDate)),
                          !.timer = "fired"]
    /\ UNCHANGED <<arg, opts, attempts, sandbox, uuids, cur, stderr,
                   result, fetching, dest, destDirs, outcome, why, log>>

FetchNext ==
    \/ ResponseOk
    \/ ResponseNotOk
    \/ ResponseBodyNull
    \/ FetchFails
    \/ \E n \in 1..MaxBytes : Chunk(n)
    \/ PipelineEnds
    \/ PipelineFails
    \/ TimerFires

SpecFetch == FetchInit /\ [][FetchNext]_vars

\* the messages of the errors downloadFile makes itself
OwnMessages ==
    {<<"Download timed out">>, <<"Network error downloading">>,
     <<"Failed to download">>}

NonDecreasing(calls) ==
    \A i \in 1..(Len(calls) - 1) : calls[i].current <= calls[i + 1].current

\* C15 (progress is monotone): when the remote advertises a size, the bytes
\* reported by the progress calls of a fetch never go down, and the last
\* call of a fetch that succeeded reports as many bytes as the total.
C15_ProgressMonotone ==
    arg.contentLength.present
       => /\ NonDecreasing(ret.calls)
          /\ pc = "resolved"
                => Last(ret.calls).current = Last(ret.calls).total

\* C16 (unknown size): when the remote advertises no size, every progress
\* call reports -1 as total, but the last call of a fetch that succeeded,
\* which reports the bytes received as current and as total.  (A fetch
\* that was rejected made that last call only if the call itself is what
\* rejected it.)
C16_UnknownSize ==
    ~arg.contentLength.present
       => /\ pc \notin {"resolved", "rejected"}
                => \A i \in 1..Len(ret.calls) : ret.calls[i].total = -1
          /\ pc = "rejected"
                => /\ \A i \in 1..(Len(ret.calls) - 1) :
                         ret.calls[i].total = -1
                   /\ (ret.calls # <<>> /\ Last(ret.calls).total # -1)
                         => /\ Last(ret.calls) =
                                  Progress(ret.receivedBytes,
                                           ret.receivedBytes)
                            /\ onProgressCallback(Last(ret.thrown))
                                  # NoError
          /\ pc = "resolved"
                => /\ \A i \in 1..(Len(ret.calls) - 1) :
                         ret.calls[i].total = -1
                   /\ Last(ret.calls) =
                         Progress(ret.receivedBytes, ret.receivedBytes)
                   /\ Len(ret.calls) >= 2

C16_Witness ==
    /\ pc = "resolved"
    /\ ~arg.contentLength.present
    /\ ret.receivedBytes >= 2
    /\ Len(ret.calls) >= 4

DocumentedType(status) ==
    CASE status = 404 -> "HttpErrorNotFound"
      [] status = 403 -> "HttpErrorRateLimit"
      [] status = 429 -> "HttpErrorRateLimit"
      [] status = 500 -> "HttpErrorServer"
      [] status = 503 -> "HttpErrorServer"
      [] OTHER -> "HttpError"

HttpFailures == {"NotFound", "RateLimited", "ServerError", "GenericHttp"}

\* C18 (a typed error is surfaced): when a fetch has failed with an HTTP
\* status, download() rejects with that error; it does not resolve to false.
C18_TypedErrorSurfaced ==
    (pc = "done" /\ log.fetchesFailed > 0 /\ why \in HttpFailures)
       => outcome = "threw"

\* C20 (no output is success): after a run that exits 0 and leaves its root
\* empty, download() returns true, and nothing at the destination is made,
\* moved or changed.
C20_NoOutputIsSuccess ==
    /\ [][(pc = "ran" /\ result.success /\ sandbox[cur] = {})
            => /\ pc' = "done"
               /\ outcome' = "true"
               /\ dest' = dest
               /\ destDirs' = destDirs]_vars
    /\ []((pc = "done" /\ result.success /\ log.produced = {})
            => (outcome = "true" /\ dest = {}))

C20_Witness ==
    /\ pc = "done"
    /\ result.success
    /\ log.produced = {}
    /\ outcome = "true"
    /\ opts.to = "tool"
    /\ destDirs = {}
    /\ log.fetchesOk >= 1

\* download() has returned true after moving what the run produced
Placed == pc = "done" /\ result.success /\ log.produced # {}

\* the directory cwd/<to> was there before download() was called
ToWasDirectory == <<opts.to>> \in log.dirsBefore

\* C21 (single-file rename): one produced file and a name `to`, without
\* multi-file extraction and with no directory of that name in the way,
\* leaves the file at cwd/<to> and nothing at cwd/<its name>.
C21_SingleFileRename ==
    (Placed /\ opts.to # "" /\ ~opts.extractAll
        /\ Cardinality(log.produced) = 1 /\ ~ToWasDirectory)
       => /\ outcome = "true"
          /\ dest = {<<opts.to>>}
          /\ destDirs = log.dirsBefore

C21_Witness ==
    /\ Placed
    /\ opts = [to |-> "tool", extractAll |-> FALSE, all |-> FALSE]
    /\ log.produced = {"result"}
    /\ dest = {<<"tool">>}
    /\ log.fetchesOk >= 1

\* C22 (fan-out): with a name `to`, and multi-file extraction asked for or
\* more than one entry produced, every entry E is at cwd/<to>/<E>.
C22_FanOut ==
    (Placed /\ opts.to # ""
        /\ (opts.extractAll \/ Cardinality(log.produced) > 1))
       => /\ outcome = "true"
          /\ dest = {<<opts.to, itemName>> : itemName \in log.produced}

\* C23 (no requested name): without `to`, every entry E is at cwd/<E>.
C23_NoRequestedName ==
    (Placed /\ opts.to = "")
       => /\ outcome = "true"
          /\ dest = {<<itemName>> : itemName \in log.produced}

C23_Witness ==
    /\ Placed
    /\ opts.to = ""
    /\ log.produced = OutNames
    /\ dest = {<<"result">>, <<"notes.txt">>}

\* C24 (`to` as documented): a single binary is placed inside cwd/<to> when
\* that is a directory (it was one before the call, or extractAll asks for
\* one), and renamed to cwd/<to> otherwise.
C24_ToAsDocumented ==
    (Placed /\ opts.to # "" /\ Cardinality(log.produced) = 1)
       => /\ outcome = "true"
          /\ \A itemName \in log.produced :
                dest = IF ToWasDirectory \/ opts.extractAll
                       THEN {<<opts.to, itemName>>}
                       ELSE {<<opts.to>>}

----------------------------------------------------------------------------
(* The constructor of Eget: where an instance puts its output *)

\* a path text is its split at "/": "" is << <<>> >>, "/bin" is
\* << <<>>, <<"bin">> >>, "./out" is << <<".">>, <<"out">> >>
EmptyText == << <<>> >>

isAbsolute(path) == Len(path) >= 2 /\ path[1] = <<>>

\* path.resolve(path) of a process whose working directory is processCwd:
\* the rooted, normalised list of segments
resolve(path, processCwd) ==
    CleanSegs(IF isAbsolute(path) THEN path ELSE processCwd \o path, <<>>)

\* the values of JavaScript an option or an environment variable can hold
undefined == [type |-> "undefined", val |-> <<>>]
String(path) == [type |-> "string", val |-> path]
Number(n) == [type |-> "number", val |-> << <<n>> >>]
Boolean(b) == [type |-> "boolean", val |-> << <<b>> >>]
Callback == [type |-> "function", val |-> <<>>]

\* the truthiness `a && ...` and `a || b` test
Truthy(v) ==
    CASE v.type = "undefined" -> FALSE
      [] v.type = "string" -> v.val # EmptyText
      [] v.type = "number" -> v.val # << <<"0">> >>
      [] v.type = "boolean" -> v.val = << <<"true">> >>
      [] OTHER -> TRUE

\* a || b
Or(a, b) == IF Truthy(a) THEN a ELSE b

\* the type checks of the constructor, in their order
TypeErrorOf(options) ==
    IF Truthy(options.tmpDir) /\ options.tmpDir.type # "string"
    THEN "tmpDir must be a string"
    ELSE IF Truthy(options.cwd) /\ options.cwd.type # "string"
    THEN "cwd must be a string"
    ELSE IF Truthy(options.verbose) /\ options.verbose.type # "boolean"
    THEN "verbose must be a boolean"
    ELSE IF Truthy(options.onProgress) /\ options.onProgress.type # "function"
    THEN "onProgress must be a callback function"
    ELSE "none"

\* a faulty variant: the destination of the caller is preferred over EGET_BIN
thisCwdCallerFirst(options, env, processCwd) ==
    resolve(Or(Or(options.cwd, env.EGET_BIN), String(processCwd)).val,
            processCwd)

\* this.cwd = resolve(process.env.EGET_BIN || options.cwd || cwd())
thisCwd(options, env, processCwd) ==
    resolve(Or(Or(env.EGET_BIN, options.cwd), String(processCwd)).val,
            processCwd)

\* this.tmpDir = resolve(options.tmpDir || "./.eget")
thisTmpDir(options, processCwd) ==
    resolve(Or(options.tmpDir, String(<< <<".">>, <<".eget">> >>)).val,
            processCwd)

\* new Eget(options) in a process with environment env and working
\* directory processCwd
NewEget(options, env, processCwd) ==
    IF TypeErrorOf(options) # "none"
    THEN [threw |-> TRUE, message |-> TypeErrorOf(options)]
    ELSE [threw |-> FALSE,
          tmpDir |-> thisTmpDir(options, processCwd),
          cwd |-> thisCwd(options, env, processCwd),
          verbose |-> Truthy(options.verbose),
          onProgress |-> options.onProgress]

PathTexts ==
    {EmptyText, << <<>>, <<"bin">> >>, << <<"out">> >>,
     << <<"..">>, <<"out">> >>}

\* process.env holds strings only
Environments == [EGET_BIN : {undefined} \cup {String(p) : p \in PathTexts}]

WorkingDirectories == {<< <<>>, <<"work">> >>, << <<>>, <<"home">>, <<"u">> >>}

EgetOptions ==
    [tmpDir : {undefined, String(<< <<>>, <<"tmp">> >>), Number("1")},
     cwd : {undefined, Number("1")} \cup {String(p) : p \in PathTexts},
     verbose : {undefined, Boolean("true"), String(<< <<"yes">> >>)},
     onProgress : {undefined, Callback}]

ConstructorInit ==
    /\ pc = "module"
    /\ arg \in [env : Environments, processCwd : WorkingDirectories]
    /\ ret = <<>>
    /\ opts = [to |-> "", extractAll |-> FALSE, all |-> FALSE]
    /\ attempts = 0
    /\ cache = {}
    /\ sandbox = <<>>
    /\ uuids = 0
    /\ cur = 0
    /\ stderr = <<>>
    /\ result = NoResult
    /\ fetching = NoFetch
    /\ dest = {}
    /\ destDirs = {}
    /\ outcome = "none"
    /\ why = "none"
    /\ log = NoLog

\* const instance = new Eget(options)
Construct(options) ==
    /\ pc = "module"
    /\ pc' = "constructed"
    /\ arg' = [env |-> arg.env, processCwd |-> arg.processCwd,
               options |-> options]
    /\ ret' = NewEget(options, arg.env, arg.processCwd)
    /\ UNCHANGED <<opts, attempts, cache, sandbox, uuids, cur, stderr, result,
                   fetching, dest, destDirs, outcome, why, log>>

ConstructorNext == \E options \in EgetOptions : Construct(options)

SpecConstructor == ConstructorInit /\ [][ConstructorNext]_vars

\* the variable or the option is a string that is not empty
Given(v) == v.type = "string" /\ v.val # EmptyText

\* the directory the text names, seen from the working directory
Directory(v, processCwd) == resolve(v.val, processCwd)

\* C25 (output-location precedence): the output directory of an instance is
\* the directory of EGET_BIN when that variable is not empty, whatever the
\* caller supplied; else the directory of options.cwd when the caller
\* supplied one; else the working directory of the process.
C25_OutputPrecedence ==
    (pc = "constructed" /\ ~ret.threw)
       => ret.cwd =
            IF Given(arg.env.EGET_BIN)
            THEN Directory(arg.env.EGET_BIN, arg.processCwd)
            ELSE IF Given(arg.options.cwd)
            THEN Directory(arg.options.cwd, arg.processCwd)
            ELSE Tail(arg.processCwd)

C25_Witness ==
    /\ pc = "constructed"
    /\ ~ret.threw
    /\ arg.env.EGET_BIN = String(<< <<>>, <<"bin">> >>)
    /\ arg.options.cwd = String(<< <<"out">> >>)
    /\ arg.processCwd = << <<>>, <<"work">> >>
    /\ ret.cwd = << <<"bin">> >>

----------------------------------------------------------------------------
(* eget(repo, options): one download() and the cleanup() after it *)

\* tmpDir as cleanup() sees it: whether it exists, the cache files and the
\* workspaces in it
TmpDir(exists, files, sb) == [exists |-> exists, cache |-> files, sandbox |-> sb]

\* a faulty variant: the ENOENT of stat() leaves cleanup()
cleanupWithoutCatch(fs) ==
    IF fs.exists
    THEN [fs |-> TmpDir(FALSE, {}, <<>>), rejected |-> FALSE, warned |-> FALSE]
    ELSE [fs |-> fs, rejected |-> TRUE, warned |-> FALSE]

\* cleanup(): stat(tmpDir), then rm(tmpDir, {recursive, force}); the ENOENT
\* of stat() is caught and takes the branch that warns
cleanup(fs) ==
    IF fs.exists
    THEN [fs |-> TmpDir(FALSE, {}, <<>>), rejected |-> FALSE, warned |-> FALSE]
    ELSE [fs |-> fs, rejected |-> FALSE, warned |-> TRUE]

\* ensureDir(downloadTempDir) makes tmpDir with the first workspace
tmpDirExists == arg.tmpDir \/ log.runsStarted > 0

Repos == {"", "owner/repo"}

EgetInit ==
    /\ pc = "idle"
    /\ arg \in [repo : Repos, skipCleanup : BOOLEAN, tmpDir : BOOLEAN]
    /\ ret = [tmpDir |-> arg.tmpDir, cleanup |-> "none", value |-> "none"]
    /\ opts = [to |-> "", extractAll |-> FALSE, all |-> FALSE]
    /\ attempts = 0
    /\ cache = {}
    /\ sandbox = <<>>
    /\ uuids = 0
    /\ cur = 0
    /\ stderr = <<>>
    /\ result = NoResult
    /\ fetching = NoFetch
    /\ dest = {}
    /\ destDirs = {}
    /\ outcome = "none"
    /\ why = "none"
    /\ log = NoLog

\* a faulty variant: repo is tested after the first workspace was made
RepoRequiredInLoop ==
    /\ pc = "idle"
    /\ arg.repo = ""
    /\ pc' = "done"
    /\ outcome' = "threw"
    /\ why' = "repo_required"
    /\ uuids' = uuids + 1
    /\ sandbox' = ensureDir(sandbox, uuids + 1)
    /\ UNCHANGED <<io, stderr, opts, attempts, cache, cur, result, fetching,
                   dest, destDirs, log>>

\* if (!repo) throw new Error("repo parameter is required")
RepoRequired ==
    /\ pc = "idle"
    /\ arg.repo = ""
    /\ pc' = "done"
    /\ outcome' = "threw"
    /\ why' = "repo_required"
    /\ UNCHANGED <<io, stderr, opts, attempts, cache, sandbox, uuids, cur,
                   result, fetching, dest, destDirs, log>>

\* finally { if (!skipCleanup) await egetInstance.cleanup() }, then eget()
\* settles as download() did
Finally ==
    /\ pc = "done"
    /\ ~arg.skipCleanup
    /\ LET cleaned == cleanup(TmpDir(tmpDirExists, cache, sandbox))
       IN  /\ cache' = cleaned.fs.cache
           /\ sandbox' = cleaned.fs.sandbox
           /\ ret' = [tmpDir |-> cleaned.fs.exists,
                      cleanup |-> IF cleaned.rejected THEN "rejected"
                                  ELSE "resolved",
                      value |-> IF cleaned.rejected THEN "threw" ELSE outcome]
    /\ pc' = "settled"
    /\ UNCHANGED <<arg, stderr, opts, attempts, uuids, cur, result, fetching,
                   dest, destDirs, outcome, why, log>>

\* finally { } with skipCleanup: eget() settles as download() did
FinallySkipped ==
    /\ pc = "done"
    /\ arg.skipCleanup
    /\ ret' = [tmpDir |-> tmpDirExists, cleanup |-> "none", value |-> outcome]
    /\ pc' = "settled"
    /\ UNCHANGED <<arg, stderr, opts, attempts, cache, sandbox, uuids, cur,
                   result, fetching, dest, destDirs, outcome, why, log>>

EgetNext ==
    \/ arg.repo # "" /\ Next
    \/ RepoRequired
    \/ Finally
    \/ FinallySkipped

SpecEget == EgetInit /\ [][EgetNext]_vars

C26_WitnessMissing ==
    /\ pc = "settled"
    /\ ~arg.skipCleanup
    /\ ~arg.tmpDir
    /\ why = "repo_required"
    /\ ret.cleanup = "resolved"

----------------------------------------------------------------------------
(* Permission repair: shouldBeExecutable and fixExecutablePermissions *)

MaxExtensions == 2
MaxRepairs == 2

\* a file name is a sequence of tokens in which "." stands alone:
\* "tool.tar.gz" is <<"tool", ".", "tar", ".", "gz">>
endsWith(fileName, ext) ==
    /\ Len(fileName) >= 2
    /\ fileName[Len(fileName) - 1] = "."
    /\ fileName[Len(fileName)] = ext

includes(fileName, token) == \E i \in 1..Len(fileName) : fileName[i] = token

\* the bits of stats.mode: 0o111, 0o777 and the type of a regular file
ExecuteBits == {"ux", "gx", "ox"}
PermissionBits ==
    {"ur", "uw", "ux", "gr", "gw", "gx", "or", "ow", "ox"}
FileTypeBits == {"S_IFREG"}

\* a faulty variant: the suffixes that exclude a file are tested last
shouldBeExecutableExcludedLast(fileName, mode) ==
    \/ endsWith(fileName, "exe")
    \/ endsWith(fileName, "appimage")
    \/ ~includes(fileName, ".")
    \/ mode \cap ExecuteBits # {}
    \/ ~ (\/ endsWith(fileName, "deb")
          \/ endsWith(fileName, "1")
          \/ endsWith(fileName, "txt"))

shouldBeExecutable(fileName, mode) ==
    IF \/ endsWith(fileName, "deb")
       \/ endsWith(fileName, "1")
       \/ endsWith(fileName, "txt")
    THEN FALSE
    ELSE \/ endsWith(fileName, "exe")
         \/ endsWith(fileName, "appimage")
         \/ ~includes(fileName, ".")
         \/ mode \cap ExecuteBits # {}

\* chmod(filePath, newMode): the permission bits are replaced, the type of
\* the file stays
chmod(mode, newMode) == (mode \ PermissionBits) \cup newMode

\* a faulty variant: newMode = currentMode ^ 0o111
fixExecutablePermissionsFlipsX(platform, fileName, mode) ==
    IF platform = "win32" THEN mode
    ELSE IF shouldBeExecutable(fileName, mode)
         THEN LET currentMode == mode \cap PermissionBits
                  newMode == (currentMode \ ExecuteBits)
                                \cup (ExecuteBits \ currentMode)
              IN  IF currentMode # newMode THEN chmod(mode, newMode)
                  ELSE mode
         ELSE mode

\* the mode of the file at filePath after fixExecutablePermissions(filePath),
\* its mode being `mode` before
fixExecutablePermissions(platform, fileName, mode) ==
    IF platform = "win32" THEN mode
    ELSE IF shouldBeExecutable(fileName, mode)
         THEN LET currentMode == mode \cap PermissionBits
                  newMode == currentMode \cup ExecuteBits
              IN  IF currentMode # newMode THEN chmod(mode, newMode)
                  ELSE mode
         ELSE mode

Extensions == {"exe", "appimage", "deb", "1", "txt", "gz", "EXE"}

RECURSIVE WithExtensions(_)
WithExtensions(n) ==
    IF n = 0 THEN {<<"tool">>, <<".", "tool">>}
    ELSE LET shorter == WithExtensions(n - 1)
         IN  shorter \cup {fileName \o <<".", ext>> :
                              fileName \in shorter, ext \in Extensions}

FileNames == WithExtensions(MaxExtensions)

Modes == {FileTypeBits \cup bits : bits \in SUBSET {"ur", "ux", "gx", "ox"}}

Platforms == {"linux", "win32"}

PermissionsInit ==
    /\ pc = "moved"
    /\ arg \in [platform : Platforms, fileName : FileNames, mode : Modes]
    /\ ret = <<arg.mode>>
    /\ opts = [to |-> "", extractAll |-> FALSE, all |-> FALSE]
    /\ attempts = 0
    /\ cache = {}
    /\ sandbox = <<>>
    /\ uuids = 0
    /\ cur = 0
    /\ stderr = <<>>
    /\ result = NoResult
    /\ fetching = NoFetch
    /\ dest = {}
    /\ destDirs = {}
    /\ outcome = "none"
    /\ why = "none"
    /\ log = NoLog

\* await fixExecutablePermissions(filePath): ret lists the modes the file
\* had, the newest last
Repair ==
    /\ pc = "moved"
    /\ Len(ret) <= MaxRepairs
    /\ ret' = Append(ret, fixExecutablePermissions(arg.platform, arg.fileName,
                                                   Last(ret)))
    /\ UNCHANGED <<pc, arg, opts, attempts, cache, sandbox, uuids, cur, stderr,
                   result, fetching, dest, destDirs, outcome, why, log>>

PermissionsNext == Repair

SpecPermissions == PermissionsInit /\ [][PermissionsNext]_vars

\* the name ends in `suffix`, the dot included
HasSuffix(fileName, suffix) ==
    /\ Len(fileName) >= 2
    /\ SubSeq(fileName, Len(fileName) - 1, Len(fileName)) = <<".", suffix>>

Excluded(fileName) == \E s \in {"deb", "1", "txt"} : HasSuffix(fileName, s)

Matched(fileName, mode) ==
    \/ \E s \in {"exe", "appimage"} : HasSuffix(fileName, s)
    \/ \A i \in 1..Len(fileName) : fileName[i] # "."
    \/ \E bit \in ExecuteBits : bit \in mode

\* C27 (permission repair decision): on POSIX a repaired file has its mode
\* with all three execute bits added exactly when its name has no excluded
\* suffix and it is matched (executable suffix, no dot in the name, or an
\* execute bit already set); otherwise, and always on win32, its mode is
\* unchanged.
C27_RepairDecision ==
    Len(ret) >= 2
       => ret[2] = IF /\ arg.platform # "win32"
                      /\ ~Excluded(arg.fileName)
                      /\ Matched(arg.fileName, ret[1])
                   THEN ret[1] \cup ExecuteBits
                   ELSE ret[1]

\* an excluded suffix wins over an execute bit already set
C27_Witness ==
    /\ Len(ret) >= 2
    /\ arg.platform = "linux"
    /\ arg.fileName = <<"tool", ".", "exe", ".", "txt">>
    /\ ret[1] = {"S_IFREG", "ur", "ux"}
    /\ ret[2] = ret[1]

\* a file without extension gained the execute bits
C27_WitnessGained ==
    /\ Len(ret) >= 2
    /\ arg.platform = "linux"
    /\ arg.fileName = <<"tool">>
    /\ ret[1] = {"S_IFREG", "ur"}
    /\ ret[2] = {"S_IFREG", "ur", "ux", "gx", "ox"}

\* C28 (permission repair idempotence): whatever the name and the starting
\* mode, every further repair leaves the mode the first repair made.
C28_RepairIdempotent ==
    \A i \in 2..Len(ret) : ret[i] = ret[2]

C28_Witness ==
    /\ Len(ret) >= 3
    /\ arg.platform = "linux"
    /\ arg.fileName = <<"tool", ".", "appimage">>
    /\ ret[1] = {"S_IFREG", "ur", "gx"}
    /\ ret[2] # ret[1]
    /\ ret[3] = ret[2]

----------------------------------------------------------------------------
(* The compilation cache: the static Eget.wasmCompilationPromise *)

MaxCalls == 4

Instances == {"a", "b"}

\* ret holds the static field, the promises made (by their state) and the
\* calls of getWasmModule with what each returned
NoCompilation == [wasmCompilationPromise |-> null, promises |-> <<>>,
                  calls |-> <<>>]

\* the compilations that have not settled
InFlight ==
    {i \in 1..Len(ret.promises) : ret.promises[i] \in {"reading", "compiling"}}

\* a faulty variant: only a module that is compiled counts as cached
CachedModule ==
    /\ ret.wasmCompilationPromise # null
    /\ ret.promises[ret.wasmCompilationPromise[1]] = "fulfilled"

\* if (Eget.wasmCompilationPromise)
CachedPromise == ret.wasmCompilationPromise # null

ModuleInit ==
    /\ pc = "process"
    /\ arg = <<>>
    /\ ret = NoCompilation
    /\ opts = [to |-> "", extractAll |-> FALSE, all |-> FALSE]
    /\ attempts = 0
    /\ cache = {}
    /\ sandbox = <<>>
    /\ uuids = 0
    /\ cur = 0
    /\ stderr = <<>>
    /\ result = NoResult
    /\ fetching = NoFetch
    /\ dest = {}
    /\ destDirs = {}
    /\ outcome = "none"
    /\ why = "none"
    /\ log = NoLog

\* instance.getWasmModule(), up to its return: the cached promise, or a new
\* one that is stored before anything is awaited
GetWasmModule(instance) ==
    /\ pc = "process"
    /\ Len(ret.calls) < MaxCalls
    /\ IF CachedPromise
       THEN ret' = [ret EXCEPT !.calls =
                       Append(@, [instance |-> instance,
                                  promise |-> ret.wasmCompilationPromise,
                                  started |-> FALSE,
                                  inFlight |-> InFlight])]
       ELSE LET promise == <<Len(ret.promises) + 1>>
            IN  ret' = [wasmCompilationPromise |-> promise,
                        promises |-> Append(ret.promises, "reading"),
                        calls |-> Append(ret.calls,
                                         [instance |-> instance,
                                          promise |-> promise,
                                          started |-> TRUE,
                                          inFlight |-> InFlight])]
    /\ UNCHANGED <<pc, arg, opts, attempts, cache, sandbox, uuids, cur, stderr,
                   result, fetching, dest, destDirs, outcome, why, log>>

\* await readFile(DEFAULT_WASM_PATH) resolves
ReadFileResolves(i) ==
    /\ pc = "process"
    /\ i \in 1..Len(ret.promises)
    /\ ret.promises[i] = "reading"
    /\ ret' = [ret EXCEPT !.promises[i] = "compiling"]
    /\ UNCHANGED <<pc, arg, opts, attempts, cache, sandbox, uuids, cur, stderr,
                   result, fetching, dest, destDirs, outcome, why, log>>

\* await WebAssembly.compile(wasmBytes) resolves: return module
CompileResolves(i) ==
    /\ pc = "process"
    /\ i \in 1..Len(ret.promises)
    /\ ret.promises[i] = "compiling"
    /\ ret' = [ret EXCEPT !.promises[i] = "fulfilled"]
    /\ UNCHANGED <<pc, arg, opts, attempts, cache, sandbox, uuids, cur, stderr,
                   result, fetching, dest, destDirs, outcome, why, log>>

\* readFile or compile rejects: the catch resets the static field and throws
CompilationFails(i) ==
    /\ pc = "process"
    /\ i \in 1..Len(ret.promises)
    /\ ret.promises[i] \in {"reading", "compiling"}
    /\ ret' = [ret EXCEPT !.promises[i] = "rejected",
                          !.wasmCompilationPromise = null]
    /\ UNCHANGED <<pc, arg, opts, attempts, cache, sandbox, uuids, cur, stderr,
                   result, fetching, dest, destDirs, outcome, why, log>>

ModuleNext ==
    \/ \E instance \in Instances : GetWasmModule(instance)
    \/ \E i \in 1..MaxCalls : ReadFileResolves(i)
    \/ \E i \in 1..MaxCalls : CompileResolves(i)
    \/ \E i \in 1..MaxCalls : CompilationFails(i)

SpecModule == ModuleInit /\ [][ModuleNext]_vars

\* C29 (single-flight compilation): at most one compilation is in flight;
\* a call made while one is in flight, from whatever instance, starts none
\* and returns the promise of that one; and a compilation is started only
\* when every earlier one has failed, so never after one has succeeded.
C29_SingleFlight ==
    pc = "process"
       => /\ Cardinality(InFlight) <= 1
          /\ \A c \in 1..Len(ret.calls) :
                ret.calls[c].inFlight # {}
                   => /\ ~ret.calls[c].started
                      /\ ret.calls[c].inFlight = {ret.calls[c].promise[1]}
          /\ \A i \in 1..Len(ret.promises) :
                i < Len(ret.promises) => ret.promises[i] = "rejected"
          /\ Cardinality({c \in 1..Len(ret.calls) : ret.calls[c].started})
                = Len(ret.promises)

\* two instances called before the first compilation finished and share it;
\* it succeeded, and a later call got it too
C29_Witness ==
    /\ pc = "process"
    /\ Len(ret.calls) >= 3
    /\ ret.calls[1].instance # ret.calls[2].instance
    /\ ret.calls[2].inFlight = {1}
    /\ ret.calls[3].inFlight = {}
    /\ ret.promises = <<"fulfilled">>
    /\ \A c \in 1..3 : ret.calls[c].promise = <<1>>

----------------------------------------------------------------------------
(* Two eget() calls of one process that share tmpDir *)

Invocations == {1, 2}

\* the cache paths the module of an invocation asks for before it exits 0
CachePaths == {"x", "y"}

\* per invocation: what run() returned, and what its fetches did
NoRun == [success |-> FALSE, path |-> ""]
NoFetches == [fetched |-> {}, failed |-> 0]

SharedInit ==
    /\ pc = [i \in Invocations |-> "loop"]
    /\ arg \in [Invocations -> (SUBSET CachePaths) \ {{}}]
    /\ ret = <<>>
    /\ attempts = [i \in Invocations |-> 0]
    /\ result = [i \in Invocations |-> NoRun]
    /\ outcome = [i \in Invocations |-> "none"]
    /\ log = [i \in Invocations |-> NoFetches]
    /\ cache = {}
    /\ sandbox = <<>>
    /\ dest = {}
    /\ opts = [to |-> "", extractAll |-> FALSE, all |-> FALSE]
    /\ uuids = 0
    /\ cur = 0
    /\ stderr = <<>>
    /\ fetching = NoFetch
    /\ destDirs = {}
    /\ why = "none"

\* while (attempts < maxAttempts): ensureDir(downloadTempDir) of a fresh
\* workspace, named here after its invocation; else return false
LoopHead(i) ==
    /\ pc[i] = "loop"
    /\ IF LoopCondition(attempts[i])
       THEN /\ sandbox' = ensureDir(sandbox, i)
            /\ pc' = [pc EXCEPT ![i] = "starting"]
            /\ UNCHANGED outcome
       ELSE /\ pc' = [pc EXCEPT ![i] = "done"]
            /\ outcome' = [outcome EXCEPT ![i] = "false"]
            /\ UNCHANGED sandbox
    /\ UNCHANGED <<io, attempts, result, log, cache, dest, opts, uuids, cur,
                   stderr, fetching, destDirs, why>>

\* run(): ensureDir of the workspace and of tmpDir, then wasi.start, which
\* does not yield: the module exits 0 with its output when all it wants is
\* cached, and else names something that is missing
RunModule(i) ==
    /\ pc[i] = "starting"
    /\ IF arg[i] \subseteq cache
       THEN /\ sandbox' = Written(ensureDir(sandbox, i), i, {"result"})
            /\ result' = [result EXCEPT ![i] = [success |-> TRUE, path |-> ""]]
       ELSE /\ sandbox' = ensureDir(sandbox, i)
            /\ \E path \in arg[i] \ cache :
                  result' = [result EXCEPT ![i] =
                                [success |-> FALSE, path |-> path]]
    /\ pc' = [pc EXCEPT ![i] = "ran"]
    /\ UNCHANGED <<io, attempts, outcome, log, cache, dest, opts, uuids, cur,
                   stderr, fetching, destDirs, why>>

\* result.success: readdir(downloadTempDir) throws when the workspace is
\* gone; else the entries are moved and true is returned; the finally
\* removes the workspace
ReadWorkspace(i) ==
    /\ pc[i] = "ran"
    /\ result[i].success
    /\ IF i \in DOMAIN sandbox
       THEN /\ dest' = dest \cup {<<i, itemName>> : itemName \in sandbox[i]}
            /\ outcome' = [outcome EXCEPT ![i] = "true"]
       ELSE /\ outcome' = [outcome EXCEPT ![i] = "threw"]
            /\ UNCHANGED dest
    /\ sandbox' = rm(sandbox, i)
    /\ pc' = [pc EXCEPT ![i] = "done"]
    /\ UNCHANGED <<io, attempts, result, log, cache, opts, uuids, cur, stderr,
                   fetching, destDirs, why>>

\* downloadFile resolves: the file is in the cache, attempts++
FetchResolves(i) ==
    /\ pc[i] = "ran"
    /\ ~result[i].success
    /\ cache' = cache \cup {result[i].path}
    /\ attempts' = [attempts EXCEPT ![i] = @ + 1]
    /\ log' = [log EXCEPT ![i].fetched = @ \cup {result[i].path}]
    /\ sandbox' = rm(sandbox, i)
    /\ pc' = [pc EXCEPT ![i] = "loop"]
    /\ UNCHANGED <<io, result, outcome, dest, opts, uuids, cur, stderr,
                   fetching, destDirs, why>>

\* downloadFile rejects after removing the file at its path: return false
FetchRejects(i) ==
    /\ pc[i] = "ran"
    /\ ~result[i].success
    /\ cache' = cache \ {result[i].path}
    /\ log' = [log EXCEPT ![i].failed = @ + 1]
    /\ outcome' = [outcome EXCEPT ![i] = "false"]
    /\ sandbox' = rm(sandbox, i)
    /\ pc' = [pc EXCEPT ![i] = "done"]
    /\ UNCHANGED <<io, attempts, result, dest, opts, uuids, cur, stderr,
                   fetching, destDirs, why>>

\* the finally of eget(): cleanup() removes tmpDir and all that is in it
FinalCleanup(i) ==
    /\ pc[i] = "done"
    /\ LET cleaned == cleanup(TmpDir(cache # {} \/ DOMAIN sandbox # {},
                                     cache, sandbox))
       IN  /\ cache' = cleaned.fs.cache
           /\ sandbox' = cleaned.fs.sandbox
    /\ pc' = [pc EXCEPT ![i] = "settled"]
    /\ UNCHANGED <<io, attempts, result, outcome, log, dest, opts, uuids, cur,
                   stderr, fetching, destDirs, why>>

SharedNext ==
    \E i \in Invocations :
        \/ LoopHead(i)
        \/ RunModule(i)
        \/ ReadWorkspace(i)
        \/ FetchResolves(i)
        \/ FetchRejects(i)
        \/ FinalCleanup(i)

SpecShared == SharedInit /\ [][SharedNext]_vars

\* invocation i is between the creation of a workspace and its removal
InWorkspace(i) == pc[i] \in {"starting", "ran"}

\* invocation i has not left download()
Running(i) == pc[i] \in {"loop", "starting", "ran"}

\* C30 (invocations sharing a cache root): the workspace of an invocation
\* that is using one is there, what a running invocation has fetched is
\* still cached, and an invocation none of whose fetches failed ends with
\* true, as it does alone.
C30_SharedRootTolerated ==
    \A i \in Invocations :
        /\ InWorkspace(i) => i \in DOMAIN sandbox
        /\ Running(i) => log[i].fetched \subseteq cache
        /\ (pc[i] = "settled" /\ log[i].failed = 0) => outcome[i] = "true"

\* the same, of an invocation whose peer has not yet left download() or
\* has not started
C30_AloneTolerated ==
    \A i \in Invocations :
        (\A j \in Invocations \ {i} : pc[j] = "loop" /\ attempts[j] = 0)
           => /\ InWorkspace(i) => i \in DOMAIN sandbox
              /\ Running(i) => log[i].fetched \subseteq cache
              /\ (pc[i] = "settled" /\ log[i].failed = 0) => outcome[i] = "true"

----------------------------------------------------------------------------
(* The cache root during one download() *)

\* C31 (cache grows monotonically): no step of download() removes a file
\* from the cache: a file that is cached stays cached, a later fetch of its
\* path failing included.
C31_CacheMonotone == [][cache \subseteq cache']_vars

\* C32 (missing repo): without a repo download() throws "repo parameter is
\* required" at once: no workspace, no run, no fetch, nothing cached and
\* nothing at the destination, at any point of the call; eget() still goes
\* through its finally, where cleanup() resolves.
C32_RepoRequired ==
    arg.repo = ""
       => /\ pc \in {"idle", "done", "settled"}
          /\ pc # "idle" => (outcome = "threw" /\ why = "repo_required")
          /\ sandbox = <<>> /\ uuids = 0 /\ attempts = 0
          /\ log = NoLog
          /\ cache = {} /\ fetching = NoFetch
          /\ dest = {} /\ destDirs = {}
          /\ pc = "settled"
                => /\ ret.value = "threw"
                   /\ ret.cleanup = IF arg.skipCleanup THEN "none"
                                    ELSE "resolved"

\* eget() without repo rejected after cleanup() removed the tmpDir that was
\* there
C32_Witness ==
    /\ arg.repo = ""
    /\ arg.tmpDir
    /\ ~arg.skipCleanup
    /\ pc = "settled"
    /\ ret = [tmpDir |-> FALSE, cleanup |-> "resolved", value |-> "threw"]

----------------------------------------------------------------------------
(* The argument vector download() hands to every run *)

MaxRuns == 2

\* an option the caller did not give
absent == "absent"

\* detectSystem() of the process
detectSystem == "linux/amd64"

\* `name = fallback` of the destructuring
OrDefault(value, fallback) == IF value = absent THEN fallback ELSE value

\* if (value) args.push(flag, value), of a string that defaults to null
PushValue(args, flag, value) ==
    IF OrDefault(value, "") # "" THEN args \o <<flag, value>> ELSE args

\* if (value) args.push(flag), of a boolean that defaults to false
PushFlag(args, flag, value) == IF value THEN Append(args, flag) ELSE args

\* args.push("--to", "/")
ToArguments(options) == <<"--to", "/">>

\* the args of download(repo, options), as src/eget.js builds them
Arguments(repo, options) ==
    LET a0 == <<"--non-interactive">>
        a1 == PushValue(a0, "--tag", options.tag)
        a2 == PushFlag(a1, "--pre-release", options.preRelease)
        a3 == PushFlag(a2, "--source", options.source)
        a4 == PushValue(a3, "--system",
                        OrDefault(options.system, detectSystem))
        a5 == PushValue(a4, "--file", options.file)
        a6 == PushFlag(a5, "--all", options.all)
        a7 == PushFlag(a6, "--quiet", options.quiet)
        a8 == PushFlag(a7, "--download-only", options.downloadOnly)
        a9 == PushFlag(a8, "--upgrade-only", options.upgrade)
        a10 == PushValue(a9, "--asset", options.asset)
        a11 == PushValue(a10, "--verify-sha256", options.verify)
        a12 == PushFlag(a11, "--remove-archive", options.removeArchive)
        a13 == PushFlag(a12, "--all", options.extractAll)
    IN  a13 \o ToArguments(options) \o <<repo>>

DownloadOptions ==
    [tag : {absent, "v1"}, preRelease : BOOLEAN, source : BOOLEAN,
     system : {absent, "", "darwin/arm64"}, file : {absent, "*.so"},
     all : BOOLEAN, quiet : BOOLEAN, downloadOnly : BOOLEAN,
     upgrade : BOOLEAN, upgradeOnly : BOOLEAN, asset : {absent, "^json"},
     verify : {absent, "abc"}, removeArchive : BOOLEAN,
     extractAll : BOOLEAN, to : {absent, "bin"}, timeout : {absent, "5000"}]

ArgumentsInit ==
    /\ pc = "called"
    /\ arg \in [repo : {"owner/repo"}, options : DownloadOptions]
    /\ ret = [args |-> <<>>, runs |-> <<>>]
    /\ opts = [to |-> "", extractAll |-> FALSE, all |-> FALSE]
    /\ attempts = 0
    /\ cache = {}
    /\ sandbox = <<>>
    /\ uuids = 0
    /\ cur = 0
    /\ stderr = <<>>
    /\ result = NoResult
    /\ fetching = NoFetch
    /\ dest = {}
    /\ destDirs = {}
    /\ outcome = "none"
    /\ why = "none"
    /\ log = NoLog

\* download() up to `let attempts = 0`
BuildArguments ==
    /\ pc = "called"
    /\ pc' = "loop"
    /\ ret' = [ret EXCEPT !.args = Arguments(arg.repo, arg.options)]
    /\ UNCHANGED <<arg, opts, attempts, cache, sandbox, uuids, cur, stderr,
                   result, fetching, dest, destDirs, outcome, why, log>>

\* this.run(args, {wasmSandboxDir}) of one pass of the loop
RunWithArguments ==
    /\ pc = "loop"
    /\ Len(ret.runs) < MaxRuns
    /\ ret' = [ret EXCEPT !.runs = Append(@, ret.args)]
    /\ UNCHANGED <<pc, arg, opts, attempts, cache, sandbox, uuids, cur, stderr,
                   result, fetching, dest, destDirs, outcome, why, log>>

ArgumentsNext == BuildArguments \/ RunWithArguments

SpecArguments == ArgumentsInit /\ [][ArgumentsNext]_vars

\* how often `flag` is in the vector
Count(args, flag) == Cardinality({i \in 1..Len(args) : args[i] = flag})

\* `flag` is there once, followed by `value`
Carries(args, flag, value) ==
    /\ Count(args, flag) = 1
    /\ \E i \in 1..(Len(args) - 1) : args[i] = flag /\ args[i + 1] = value

IsSet(value) == value \notin {absent, ""}

\* the documented options with a value, and those that are switches
ValueFlags ==
    [tag |-> "--tag", file |-> "--file", asset |-> "--asset"]
SwitchFlags ==
    [preRelease |-> "--pre-release", source |-> "--source",
     downloadOnly |-> "--download-only", upgradeOnly |-> "--upgrade-only",
     removeArchive |-> "--remove-archive", extractAll |-> "--all"]

\* the vector carries what the documented options say, and no more of them
Forwarded(args, repo, options) ==
    /\ \A o \in DOMAIN ValueFlags :
          IF IsSet(options[o]) THEN Carries(args, ValueFlags[o], options[o])
          ELSE Count(args, ValueFlags[o]) = 0
    /\ IF options.system = "" THEN Count(args, "--system") = 0
       ELSE Carries(args, "--system", OrDefault(options.system, detectSystem))
    /\ \A o \in DOMAIN SwitchFlags :
          Count(args, SwitchFlags[o]) = IF options[o] THEN 1 ELSE 0
    /\ Carries(args, "--to", "/")
    /\ \A i \in 1..Len(args) : args[i] \notin {"bin", "5000"}
    /\ Count(args, "--non-interactive") = 1
    /\ Last(args) = repo

\* C33 (options and the argument vector): the vector every run gets carries
\* exactly the flag of each documented option that is set, --non-interactive
\* and --to /, never to or timeout, and ends with repo; all runs get the
\* same vector.
C33_OptionsForwarded ==
    pc = "loop"
       => /\ Forwarded(ret.args, arg.repo, arg.options)
          /\ \A r \in 1..Len(ret.runs) : ret.runs[r] = ret.args

\* the same, of the options as src/eget.js names them: upgrade for
\* upgradeOnly, and without `all`, which shares its flag with extractAll
C33_OptionsForwardedAsNamed ==
    (pc = "loop" /\ ~arg.options.all)
       => /\ Forwarded(ret.args, arg.repo,
                       [arg.options EXCEPT !.upgradeOnly = arg.options.upgrade])
          /\ \A r \in 1..Len(ret.runs) : ret.runs[r] = ret.args

----------------------------------------------------------------------------
(* A directory entry of the workspace: moveDirectoryContents *)

ItemNames == {"tool", "notes.txt"}

\* the basename as permission repair reads it
NameTokens ==
    [n \in ItemNames |-> IF n = "tool" THEN <<"tool">>
                         ELSE <<"notes", ".", "txt">>]

\* a tree is the files and the directories below a directory, as paths
NoTree == [files |-> {}, dirs |-> {}]

FileAt(name) == [files |-> {<<name>>}, dirs |-> {}]

DirAt(name, tree) ==
    [files |-> {<<name>> \o p : p \in tree.files},
     dirs |-> {<<name>>} \cup {<<name>> \o d : d \in tree.dirs}]

Both(s, t) == [files |-> s.files \cup t.files, dirs |-> s.dirs \cup t.dirs]

\* the trees the module may leave in a directory entry, three levels deep
Leaves == {NoTree, FileAt("tool")}
Shallow ==
    {Both(s, t) :
        s \in {NoTree, FileAt("tool")} \cup {DirAt("tool", l) : l \in Leaves},
        t \in {NoTree, FileAt("notes.txt")}
                \cup {DirAt("notes.txt", l) : l \in Leaves}}
Trees ==
    {Both(s, t) :
        s \in {NoTree, FileAt("tool")} \cup {DirAt("tool", l) : l \in Shallow},
        t \in {NoTree, FileAt("notes.txt")}
                \cup {DirAt("notes.txt", l) : l \in Leaves}}

\* what is at the destination of the entry before the move
Destinations ==
    {NoTree, FileAt("tool"), DirAt("tool", NoTree), DirAt("tool", FileAt("tool"))}

\* the mode of a file the module wrote, and of one that was at the
\* destination
WrittenMode == {"S_IFREG", "ur", "uw"}
OldMode == {"S_IFREG", "ur"}

\* a faulty variant: every file lands in the destination directory itself
destPathFlat(destDir, item) == <<item>>

\* const destPath = join(destDir, item)
destPath(destDir, item) == Append(destDir, item)

\* readdir(dir) of the tree
Children(tree, dir) ==
    {p[Len(dir) + 1] : p \in {q \in tree.files \cup tree.dirs :
                                 /\ Len(q) = Len(dir) + 1
                                 /\ SubSeq(q, 1, Len(dir)) = dir}}

\* a call of moveDirectoryContents(sourceDir, destDir) and the items its
\* for loop has still to visit
Frame(sourceDir, destDir, items) ==
    [sourceDir |-> sourceDir, destDir |-> destDir, items |-> items]

TreeInit ==
    /\ pc = "entry"
    /\ arg \in [source : Trees, before : Destinations]
    /\ sandbox = arg.source
    /\ dest = arg.before.files
    /\ destDirs = arg.before.dirs
    /\ ret = [stack |-> <<>>,
              modes |-> [p \in arg.before.files |-> OldMode],
              renamed |-> 0]
    /\ opts = [to |-> "", extractAll |-> FALSE, all |-> FALSE]
    /\ attempts = 0
    /\ cache = {}
    /\ uuids = 0
    /\ cur = 0
    /\ stderr = <<>>
    /\ result = NoResult
    /\ fetching = NoFetch
    /\ outcome = "none"
    /\ why = "none"
    /\ log = NoLog

\* itemStats.isDirectory(): ensureDir(finalItemPathOnHost), here <<>>, and
\* moveDirectoryContents is called: readdir(sourceDir)
EnterEntry ==
    /\ pc = "entry"
    /\ destDirs' = destDirs \cup {<<>>}
    /\ ret' = [ret EXCEPT !.stack =
                  <<Frame(<<>>, <<>>, Children(sandbox, <<>>))>>]
    /\ pc' = "moving"
    /\ UNCHANGED <<arg, sandbox, dest, opts, attempts, cache, uuids, cur,
                   stderr, result, fetching, outcome, why, log>>

\* stats.isFile(): rename(sourcePath, destPath), which throws when destPath
\* is a directory or is not in one, then fixExecutablePermissions(destPath)
MoveFile(item) ==
    /\ pc = "moving"
    /\ LET frame == Last(ret.stack)
           sourcePath == Append(frame.sourceDir, item)
           to == destPath(frame.destDir, item)
           rest == [ret.stack EXCEPT ![Len(ret.stack)].items = @ \ {item}]
       IN  /\ item \in frame.items
           /\ sourcePath \in sandbox.files
           /\ IF to \in destDirs \/ Front(to) \notin destDirs
              THEN /\ pc' = "threw"
                   /\ UNCHANGED <<sandbox, dest, ret>>
              ELSE /\ pc' = pc
                   /\ sandbox' = [sandbox EXCEPT !.files = @ \ {sourcePath}]
                   /\ dest' = dest \cup {to}
                   /\ ret' = [stack |-> rest,
                              modes |->
                                 [p \in dest \cup {to} |->
                                     IF p = to
                                     THEN fixExecutablePermissions(
                                              "linux", NameTokens[item],
                                              WrittenMode)
                                     ELSE ret.modes[p]],
                              renamed |-> ret.renamed + 1]
    /\ UNCHANGED <<arg, destDirs, opts, attempts, cache, uuids, cur, stderr,
                   result, fetching, outcome, why, log>>

\* stats.isDirectory(): ensureDir(destPath), which swallows the EEXIST of a
\* file in its place, and the recursive call: readdir(sourcePath)
EnterDirectory(item) ==
    /\ pc = "moving"
    /\ LET frame == Last(ret.stack)
           sourcePath == Append(frame.sourceDir, item)
           to == destPath(frame.destDir, item)
           rest == [ret.stack EXCEPT ![Len(ret.stack)].items = @ \ {item}]
       IN  /\ item \in frame.items
           /\ sourcePath \in sandbox.dirs
           /\ IF Front(to) \notin destDirs
              THEN /\ pc' = "threw"
                   /\ UNCHANGED <<destDirs, ret>>
              ELSE /\ pc' = pc
                   /\ destDirs' = IF to \in dest THEN destDirs
                                  ELSE destDirs \cup {to}
                   /\ ret' = [ret EXCEPT !.stack =
                                 Append(rest,
                                        Frame(sourcePath, to,
                                              Children(sandbox, sourcePath)))]
    /\ UNCHANGED <<arg, sandbox, dest, opts, attempts, cache, uuids, cur,
                   stderr, result, fetching, outcome, why, log>>

\* the for loop of a call has visited every item: the call returns
LeaveDirectory ==
    /\ pc = "moving"
    /\ Last(ret.stack).items = {}
    /\ ret' = [ret EXCEPT !.stack = Front(@)]
    /\ pc' = IF Len(ret.stack) = 1 THEN "moved" ELSE pc
    /\ UNCHANGED <<arg, sandbox, dest, destDirs, opts, attempts, cache, uuids,
                   cur, stderr, result, fetching, outcome, why, log>>

TreeNext ==
    \/ EnterEntry
    \/ \E item \in ItemNames : MoveFile(item)
    \/ \E item \in ItemNames : EnterDirectory(item)
    \/ LeaveDirectory

SpecTree == TreeInit /\ [][TreeNext]_vars

\* C34 (directory entries): when a directory entry has been materialized,
\* every file of it is at the same relative path below the destination,
\* inside a directory that exists, no file is left in the workspace, and
\* every moved file has the mode permission repair gives it; with nothing
\* in the way at the destination the move does not throw and the
\* directories are there too.
C34_TreeMoved ==
    /\ pc = "moved"
          => /\ \A r \in arg.source.files :
                   /\ r \in dest
                   /\ Front(r) \in destDirs
                   /\ ret.modes[r] = fixExecutablePermissions(
                                        "linux", NameTokens[Last(r)],
                                        WrittenMode)
             /\ arg.before = NoTree => arg.source.dirs \subseteq destDirs
             /\ sandbox.files = {}
             /\ ret.renamed = Cardinality(arg.source.files)
             /\ dest = arg.source.files \cup arg.before.files
    /\ arg.before = NoTree => pc # "threw"

\* a file two directories down was moved, and one beside it kept its mode
C34_Witness ==
    /\ pc = "moved"
    /\ <<"tool", "tool", "tool">> \in dest
    /\ <<"tool", "notes.txt">> \in dest
    /\ ret.modes[<<"tool", "notes.txt">>] = WrittenMode
    /\ ret.modes[<<"tool", "tool", "tool">>] # WrittenMode
    /\ sandbox.files = {}

----------------------------------------------------------------------------
(* The order of the progress calls of a fetch *)

Settled == pc \in {"resolved", "rejected"}

\* C35 (progress is ordered with the transfer): the first progress call of
\* a fetch reports 0 bytes and is made while the file is empty, each later
\* call reports more bytes than are in the file and no fewer than the call
\* before, the last call of a fetch that resolved is made when all bytes
\* are in the file, and no progress call is made once the fetch has
\* settled.
C35_ProgressOrdered ==
    /\ [](/\ pc = "connecting" => ret.calls = <<>>
          /\ Len(ret.writtenAt) = Len(ret.calls)
          /\ ret.calls # <<>>
                => /\ ret.calls[1].current = 0
                   /\ ret.writtenAt[1] = 0
          /\ \A i \in 1..(Len(ret.calls) - 1) :
                /\ ret.calls[i].current <= ret.calls[i + 1].current
                /\ ret.writtenAt[i] <= ret.calls[i].current
          /\ pc = "resolved"
                => /\ Last(ret.calls).current = ret.receivedBytes
                   /\ Last(ret.writtenAt) = ret.receivedBytes
                   /\ ret.written = ret.receivedBytes)
    /\ [][Settled => ret.calls' = ret.calls]_vars

\* a fetch of three bytes in two chunks resolved after four progress calls
C35_Witness ==
    /\ pc = "resolved"
    /\ Len(ret.calls) = 4
    /\ ret.writtenAt = <<0, 0, 1, 3>>
    /\ ret.calls[2].current = 1
    /\ ret.calls[4].current = 3

----------------------------------------------------------------------------
(* What download() does to the destination and to its workspaces *)

\* download() ended without success and not in the middle of moving entries
Failed ==
    /\ pc = "done"
    /\ outcome \in {"false", "threw"}
    /\ why \in {"no_recovery_url", "invalid_locator", "max_attempts",
                "run_threw"} \cup FetchFailures

\* C36 (a failed invocation leaves the destination alone): until the last
\* run has exited 0, and when download() has failed on a diagnostic without
\* locator, a locator that does not parse, a fetch, the attempt limit or a
\* run that threw, no file and no directory was made at the destination.
C36_FailureLeavesDestination ==
    (pc # "done" \/ Failed) => (dest = {} /\ destDirs = log.dirsBefore)

\* download() returned false after a run that left a file in its workspace
C36_Witness ==
    /\ Failed
    /\ why = "no_recovery_url"
    /\ log.left = {"result"}
    /\ log.fetchesOk >= 1
    /\ dest = {}
    /\ destDirs = {<<"tool">>}


\* C37 (materialization is lossless): the entries of the workspace go to
\* destinations that differ, so after download() returned true every entry
\* the run produced is at its own path, whatever `to`, extractAll and the
\* number of entries.
C37_Lossless ==
    (pc = "done" /\ outcome = "true")
       => /\ \A a, b \in log.produced :
                a # b => finalItemPathOnHost(opts, Cardinality(log.produced), a)
                            # finalItemPathOnHost(opts,
                                                  Cardinality(log.produced), b)
          /\ Cardinality(dest) = Cardinality(log.produced)

\* the same when `to` is not given or is made a directory
C37_LosslessFannedOut ==
    (opts.to = "" \/ toIsSubdirectory(opts, Cardinality(log.produced)))
       => C37_Lossless


----------------------------------------------------------------------------
(* A progress callback that throws *)

\* a step of downloadFile in which onProgress was called
ProgressCall == Len(ret.thrown') = Len(ret.thrown) + 1

\* onProgress threw at some call of this fetch
CallbackThrew == \E i \in 1..Len(ret.thrown) : ret.thrown[i] \in Throwables

\* C39 (a throwing progress callback is tolerated): whatever onProgress
\* throws, at the first call, at a chunk's or at the last, the step that
\* called it does not reject the fetch and leaves the file in place, the
\* chunk reported is written, and a fetch that resolved has the whole body
\* in the file and made one call per chunk besides the first and the last.
C39_CallbackThrowTolerated ==
    /\ [](pc = "resolved"
             => /\ FilePath \in cache
                /\ ret.written = ret.receivedBytes
                /\ Len(ret.calls) = Len(ret.thrown))
    /\ [][ProgressCall
             => /\ pc' # "rejected"
                /\ FilePath \in cache'
                /\ ret.written' = ret.receivedBytes']_vars

\* the same, for what the catch of the wrapper can log: an Error, or a
\* value String() converts
C39_ConvertibleThrowTolerated ==
    /\ [](pc = "resolved"
             => /\ FilePath \in cache
                /\ ret.written = ret.receivedBytes
                /\ Len(ret.calls) = Len(ret.thrown))
    /\ [][(ProgressCall /\ Last(ret.thrown') # "bare object")
             => /\ pc' # "rejected"
                /\ FilePath \in cache'
                /\ ret.written' = ret.receivedBytes']_vars

\* onProgress threw an Error at the first call and a string at the last,
\* and the fetch of three bytes resolved
C39_Tolerated ==
    /\ pc = "resolved"
    /\ ret.thrown = <<"Error", "returns", "returns", "string">>
    /\ ret.written = 3
    /\ FilePath \in cache

\* the text does not begin with scheme ":"
LacksScheme(url) ==
    Len(url) < 2 \/ url[1] \in Punctuation \/ url[2] # ":"

\* the text has no "//" after its scheme, or nothing between the "//" and
\* the path
LacksAuthority(url) ==
    ~HasSlashes(url) \/ Len(url) < 5 \/ url[5] \in Punctuation

\* C11 (the codec rejects malformed locators): urlToPath throws for every
\* text that lacks a scheme or lacks an authority.
C11_RejectsMalformed ==
    (ret # <<>> /\ (LacksScheme(arg) \/ LacksAuthority(arg)))
        => ret.host = Invalid

====
